---- MODULE Spec2Model ----
(***************************************************************************)
(* Release-lifecycle supervisor of packit/ai-workflows (src/supervisor):   *)
(* the delay-based work queue, the Collector, the dispatch loop, the       *)
(* per-issue and per-advisory handlers and the xunit comparison engine.    *)
(*                                                                         *)
(* Time is counted in units of 20 minutes (1200 s), the handlers' default  *)
(* wait delay; every delay and timeout of the code is a multiple of it.    *)
(* An optional value (None in Python) is the empty sequence <<>>, a set    *)
(* value the one-element sequence <<v>>.                                   *)
(***************************************************************************)
EXTENDS Integers, Sequences, FiniteSets, TLC

VARIABLES
    now,                    \* wall clock, in time units
    queue,                  \* the work queue: a set of entries [item, ready]
    pc,                     \* dispatch loop: "idle" or "handling"
    cur,                    \* the work item popped by the dispatch loop (<<>> if none)
    issues,                 \* the issue tracker: issue key -> issue snapshot
    errata,                 \* the advisory tracker: advisory id -> advisory snapshot
    tracking,               \* advisory id -> state of its needs-attention tracking issue
    dry_run,                \* app_state.dry_run
    ignore_needs_attention, \* app_state.ignore_needs_attention
    cpc,                    \* Collector: "idle", "queried" or "diffed"
    collected,              \* the work items the running Collector computed
    last,                   \* the step just taken, if it ran a handler: on what, with which outcome
    suite_a,                \* comparison engine: test suite of document A (name -> result)
    suite_b,                \* comparison engine: test suite of document B
    output,                 \* comparison engine: the XUnitComparison being filled
    test_suites_a,          \* compare_xunit_files: the parsed document A
    test_suites_b,          \* compare_xunit_files: the parsed document B
    comparison,             \* compare_xunit_files: how the call ended (<<>> before it)
    failed,                 \* repeating dispatch loop: the item whose dispatch raised last and
                            \* has not been dispatched to the end since (<<>> if none)
    workflow_value,         \* checkpoint comment: the BaselineTests value in hand (<<>> if none)
    comments,               \* checkpoint comment: the comments of the issue, oldest first
    loaded                  \* checkpoint comment: what load_from_issue returned (<<>> before)

queueVars == <<queue, pc, cur, cpc, collected>>
worldVars == <<issues, errata, tracking>>
cfgVars == <<dry_run, ignore_needs_attention>>
cmpVars == <<suite_a, suite_b, output, test_suites_a, test_suites_b, comparison,
             workflow_value, comments, loaded>>
vars == <<now, queue, pc, cur, issues, errata, tracking, dry_run,
          ignore_needs_attention, cpc, collected, last, suite_a, suite_b, output,
          test_suites_a, test_suites_b, comparison, failed, workflow_value, comments,
          loaded>>

(***************************************************************************)
(* Bounds of the model.                                                    *)
(***************************************************************************)
MaxTime == 1
MaxIds == 1
MaxCases == 2
MaxRuns == 2
MaxPackages == 2
MaxComments == 3

(***************************************************************************)
(* Program constants, in time units of 20 minutes.                         *)
(***************************************************************************)
WAIT_DELAY == 1
NO_MERGED_MR_DELAY == 9
WAIT_FOR_ERRATUM_DELAY == 3
POST_PUSH_TESTING_TIMEOUT == 9
ONE_DAY == 72

IssueKeys == {"I1", "I2"}
ErratumIds == {"E1"}

PROCESS_ISSUE == "process_issue"
PROCESS_ERRATUM == "process_erratum"

WorkItem(t, d) == [item_type |-> t, item_data |-> d]
WorkItems == {WorkItem(PROCESS_ISSUE, k) : k \in IssueKeys}
             \cup {WorkItem(PROCESS_ERRATUM, e) : e \in ErratumIds}

(***************************************************************************)
(* WorkQueue.  The queue is a set of entries; that it holds one entry per  *)
(* identity is a property of its operations, not of its representation.    *)
(***************************************************************************)
Entry(i, r) == [item |-> i, ready |-> r]

schedule_work_items_dup(q, items, delay, t) ==
    q \cup {Entry(i, t + delay) : i \in items}

schedule_work_items(q, items, delay, t) ==
    {e \in q : e.item \notin items} \cup {Entry(i, t + delay) : i \in items}

remove_work_items(q, items) == {e \in q : e.item \notin items}

remove_all_work_items(q) == {}

get_all_work_items(q) == {e.item : e \in q}

\* the entries wait_first_ready_work_item may return at time t: ready, and
\* no other entry is ready earlier
FirstReady_any_ready(q, t) == {e \in q : e.ready <= t}

FirstReady(q, t) ==
    {e \in q : e.ready <= t /\ \A f \in q : e.ready <= f.ready}

\* the same with the returned item taken out of the queue
wait_first_ready_work_item_removes(q, e, t) == remove_work_items(q, {e.item})

\* the returned item is hidden from other consumers for one wait delay
wait_first_ready_work_item(q, e, t) ==
    schedule_work_items(q, {e.item}, WAIT_DELAY, t)

(***************************************************************************)
(* Vocabulary of the trackers.                                             *)
(***************************************************************************)
IssueStatuses == {"New", "Planning", "Refinement", "In Progress", "Integration",
                  "Release Pending", "Done", "Closed"}
ErrataStatuses == {"NEW_FILES", "QE", "REL_PREP", "PUSH_READY", "IN_PUSH",
                   "DROPPED_NO_SHIP", "SHIPPED_LIVE"}
TestingStates == {"tests-not-running", "tests-pending", "tests-running", "tests-error",
                  "tests-failed", "tests-passed", "tests-waived"}
TestingFarmRequestStates == {"new", "queued", "running", "error", "canceled",
                             "cancel-requested", "complete"}
PreliminaryTestings == {"None", "Requested", "Fail", "Pass", "Ready"}
TestCoverages == {"None", "empty", "set"}

NEEDS_ATTENTION == "jotnar_needs_attention"
BACKPORTED == "jotnar_backported"
REBASED == "jotnar_rebased"
MERGED == "jotnar_merged"
REPRODUCING == "jotnar_reproducing_tests"
Labels == {NEEDS_ATTENTION, BACKPORTED, REBASED, MERGED, REPRODUCING}

\* the key of the RHELMISC issue that tracks the human work needed for advisory e
TrackKey(e) == "RHELMISC-" \o e

(***************************************************************************)
(* What one run of a handler produces: a WorkflowResult or an exception,   *)
(* the mutations it requested (calls) and the collaborators it consulted   *)
(* (reads), both in program order.  A call is <<operation, target,         *)
(* argument, dry_run>>.                                                    *)
(***************************************************************************)
WorkflowResult(why, reschedule_in, acc) ==
    [kind |-> "result", status |-> why, reschedule_in |-> reschedule_in,
     calls |-> acc.calls, reads |-> acc.reads]

Raised(why, acc) ==
    [kind |-> "raise", status |-> why, reschedule_in |-> 0,
     calls |-> acc.calls, reads |-> acc.reads]

NoAcc == [calls |-> <<>>, reads |-> <<>>]
Call(acc, c) == [acc EXCEPT !.calls = Append(@, c)]
Read(acc, r) == [acc EXCEPT !.reads = Append(@, r)]

resolve_remove_work_item(why, acc) == WorkflowResult(why, -1, acc)

resolve_wait(why, reschedule_in, acc) == WorkflowResult(why, reschedule_in, acc)

(***************************************************************************)
(* IssueHandler.  self is [issue, dry_run, ignore_needs_attention]; every  *)
(* operator yields the set of outcomes the run can have, one per answer of *)
(* the collaborators it consults.                                          *)
(***************************************************************************)
I_resolve_set_status_keep(self, status, why, acc) ==
    WorkflowResult(why, 0,
        Call(acc, <<"change_issue_status", self.issue.key, status, self.dry_run>>))

\* the same that closes the issue where it should move it to Release Pending
I_resolve_set_status_closes(self, status, why, acc) ==
    WorkflowResult(why,
        IF status \in {"Release Pending", "Closed"} THEN -1 ELSE 0,
        Call(acc, <<"change_issue_status", self.issue.key,
                    IF status = "Release Pending" THEN "Closed" ELSE status, self.dry_run>>))

I_resolve_set_status(self, status, why, acc) ==
    WorkflowResult(why,
        IF status \in {"Release Pending", "Closed"} THEN -1 ELSE 0,
        Call(acc, <<"change_issue_status", self.issue.key, status, self.dry_run>>))

I_resolve_flag_attention_wait(self, why, acc) ==
    WorkflowResult(why, WAIT_DELAY,
        Call(acc, <<"add_issue_label", self.issue.key, NEEDS_ATTENTION, self.dry_run>>))

I_resolve_flag_attention(self, why, acc) ==
    WorkflowResult(why, -1,
        Call(acc, <<"add_issue_label", self.issue.key, NEEDS_ATTENTION, self.dry_run>>))

\* the messages of resolve_on_error
NO_PREVIOUS_ERRATUM ==
    "Tests failed - see details below. Cannot start reproduction with previous build - no previous erratum found to get build from."
NO_PREVIOUS_BUILD_NVR ==
    "Tests failed - see details below. Cannot start reproduction with previous build - error finding previous build NVR."
CREATE_FAILED == "Tests failed - see details below. (the exception of BaselineTests.create)"

\* BaselineTests.create: one submission per failed request id; fail_at = 0 if
\* every submission succeeds, else the index of the submission that raises
BaselineTests_create(self, nids, fail_at, acc) ==
    LET upto == IF fail_at = 0 THEN nids ELSE fail_at - 1
        Submit[i \in 0..nids] ==
            IF i = 0 THEN Read(acc, <<"BaselineTests.create", nids>>)
            ELSE Call(Submit[i - 1],
                      <<"testing_farm_reproduce_request_with_build", self.issue.key,
                        "previous_build_nvr", self.dry_run>>)
    IN Submit[upto]

I_resolve_start_reproduction(self, nids, acc) ==
    UNION {
      IF ~prev THEN
          {I_resolve_flag_attention(self, NO_PREVIOUS_ERRATUM,
              Read(acc, <<"get_previous_erratum", "None">>))}
      ELSE UNION {
        IF ~nvr THEN
            {I_resolve_flag_attention(self, NO_PREVIOUS_BUILD_NVR,
                Read(Read(acc, <<"get_previous_erratum", "found">>),
                     <<"get_erratum_build_nvr", "None">>))}
        ELSE
          { LET acc2 == BaselineTests_create(self, nids, fail_at,
                            Read(Read(acc, <<"get_previous_erratum", "found">>),
                                 <<"get_erratum_build_nvr", "found">>))
            IN IF fail_at # 0
               THEN I_resolve_flag_attention(self,
                        CREATE_FAILED, acc2)
               ELSE resolve_wait("Waiting to reproduce tests with previous build",
                        WAIT_DELAY,
                        Call(acc2, <<"add_issue_label", self.issue.key, REPRODUCING,
                                     self.dry_run>>))
            : fail_at \in 0..nids }
        : nvr \in BOOLEAN }
      : prev \in BOOLEAN }

\* BaselineTests.settled / complete over the live states of the reproduction runs
settled_some(states) ==
    \E i \in DOMAIN states : states[i] \in {"complete", "error", "canceled"}

settled(states) ==
    \A i \in DOMAIN states : states[i] \in {"complete", "error", "canceled"}

complete_any(states) == \E i \in DOMAIN states : states[i] = "complete"

complete(states) == \A i \in DOMAIN states : states[i] = "complete"

\* the message of BaselineTests.format_issue_comment
format_issue_comment(states) ==
    IF complete(states) THEN "Reproduced"
    ELSE IF settled(states) THEN "Failed to reproduce"
    ELSE "Reproducing"

\* what a pairing of runs offers to create_attachments: the result artifact
\* (result_xunit_url) of neither run, of run A (baseline) only, of run B
\* (failed) only, or of both; with both, compare_xunit_files returns a
\* comparison or raises (documents with different suites, failed download)
PairingArtifacts == {"none", "only_a", "only_b", "comparable", "incomparable"}

comparison_status(artifact) ==
    CASE artifact = "none" ->
           [generated |-> FALSE, reason |-> "XUnit results missing for runs A and B"]
      [] artifact = "only_b" ->
           [generated |-> FALSE, reason |-> "XUnit results missing for run A"]
      [] artifact = "only_a" ->
           [generated |-> FALSE, reason |-> "XUnit results missing for run B"]
      [] OTHER ->
           [generated |-> TRUE, reason |-> "Comparison generated successfully"]

\* BaselineTests.create_attachments over n pairings: the exception of
\* compare_xunit_files leaves it, otherwise one attachment per pairing
create_attachments(n) ==
    { IF \E i \in 1..n : artifacts[i] = "incomparable"
      THEN [kind |-> "raise", artifacts |-> artifacts, attachments |-> <<>>]
      ELSE [kind |-> "return", artifacts |-> artifacts,
            attachments |-> [i \in 1..n |-> comparison_status(artifacts[i])]]
      : artifacts \in [1..n -> PairingArtifacts] }

I_resolve_check_reproduction(self, acc) ==
    IF self.issue.baseline = <<>> THEN
        {I_resolve_flag_attention(self,
            "Issue has jotnar_reproducing_tests label but cannot parse baseline tests",
            Read(acc, <<"BaselineTests.load_from_issue", "None">>))}
    ELSE UNION {
        LET acc1 == Read(Read(acc, <<"BaselineTests.load_from_issue", "found">>),
                         <<"testing_farm_get_request", states>>)
        IN IF ~settled(states) THEN
               {resolve_wait("Waiting for baseline tests to complete", WAIT_DELAY, acc1)}
           ELSE
               { LET acc2 == Read(acc1, <<"create_attachments", ca.artifacts>>) IN
                 IF ca.kind = "raise"
                 THEN Raised("create_attachments failed", acc2)
                 ELSE WorkflowResult("Baseline tests are complete, will analyze results", 0,
                        Call(Call(Call(acc2,
                          <<"add_issue_attachments", self.issue.key, ca.attachments,
                            self.dry_run>>),
                          <<"remove_issue_label", self.issue.key, REPRODUCING, self.dry_run>>),
                          <<"update_issue_comment", self.issue.key,
                            format_issue_comment(states), self.dry_run>>))
                 : ca \in create_attachments(Len(states)) }
        : states \in [1..self.issue.baseline[1] -> TestingFarmRequestStates] }

\* label_merge_if_needed: the outcomes are pairs <<labels of the local snapshot, acc>>
label_merge_if_needed(self, labels, acc) ==
    IF (BACKPORTED \in labels \/ REBASED \in labels) /\ MERGED \notin labels
    THEN { IF found
           THEN <<labels \cup {MERGED},
                  Call(Read(acc, <<"search_gitlab_project_mrs", "merged">>),
                       <<"add_issue_label", self.issue.key, MERGED, self.dry_run>>)>>
           ELSE <<labels, Read(acc, <<"search_gitlab_project_mrs", "none">>)>>
           : found \in BOOLEAN }
    ELSE {<<labels, acc>>}

\* get_latest_merged_timestamp: <<>> stands for DATETIME_MIN_UTC (no merged
\* merge request found, or none with a merge time); otherwise the latest
\* merge time, which lies now, just under a day, a day or more than a day
\* back, or a day ahead of this clock
MergedOffsets == {0, ONE_DAY - 1, ONE_DAY, ONE_DAY + 1, 0 - ONE_DAY}
MergedTimestamps == {<<>>} \cup {<<now - d>> : d \in MergedOffsets}

\* the time since DATETIME_MIN_UTC, longer than any bound of the program
SinceDatetimeMin == 100 * ONE_DAY

\* the same without abs
time_diff_signed(latest_merged_timestamp) ==
    IF latest_merged_timestamp = <<>> THEN SinceDatetimeMin
    ELSE now - latest_merged_timestamp[1]

\* abs(cur_time - latest_merged_timestamp)
time_diff(latest_merged_timestamp) ==
    IF latest_merged_timestamp = <<>> THEN SinceDatetimeMin
    ELSE IF now >= latest_merged_timestamp[1] THEN now - latest_merged_timestamp[1]
    ELSE latest_merged_timestamp[1] - now

run_before_errata_created_waits(self, acc) ==
    LET issue == self.issue IN
    IF issue.labels \cap {BACKPORTED, REBASED, MERGED} = {} THEN
        {resolve_wait("Issue without target labels", NO_MERGED_MR_DELAY, acc)}
    ELSE UNION {
        LET labels == m[1]
            acc1 == m[2]
        IN IF MERGED \notin labels THEN
               {resolve_wait("No merged MR found, reschedule it for 3 hours",
                             NO_MERGED_MR_DELAY, acc1)}
           ELSE { IF time_diff(latest_merged_timestamp) < ONE_DAY
                  THEN resolve_wait("Wait for the associated erratum to be created",
                           WAIT_FOR_ERRATUM_DELAY,
                           Read(acc1, <<"get_latest_merged_timestamp",
                                        latest_merged_timestamp>>))
                  ELSE I_resolve_flag_attention(self,
                           "A merge request was merged more than 24 hours ago but no errata was created",
                           Read(acc1, <<"get_latest_merged_timestamp",
                                        latest_merged_timestamp>>))
                  : latest_merged_timestamp \in MergedTimestamps }
        : m \in IF MERGED \notin issue.labels
                THEN label_merge_if_needed(self, issue.labels, acc)
                ELSE {<<issue.labels, acc>>} }

run_before_errata_created(self, acc) ==
    LET issue == self.issue IN
    IF issue.labels \cap {BACKPORTED, REBASED, MERGED} = {} THEN
        {resolve_remove_work_item("Issue without target labels", acc)}
    ELSE UNION {
        LET labels == m[1]
            acc1 == m[2]
        IN IF MERGED \notin labels THEN
               {resolve_wait("No merged MR found, reschedule it for 3 hours",
                             NO_MERGED_MR_DELAY, acc1)}
           ELSE { IF time_diff(latest_merged_timestamp) < ONE_DAY
                  THEN resolve_wait("Wait for the associated erratum to be created",
                           WAIT_FOR_ERRATUM_DELAY,
                           Read(acc1, <<"get_latest_merged_timestamp",
                                        latest_merged_timestamp>>))
                  ELSE I_resolve_flag_attention(self,
                           "A merge request was merged more than 24 hours ago but no errata was created",
                           Read(acc1, <<"get_latest_merged_timestamp",
                                        latest_merged_timestamp>>))
                  : latest_merged_timestamp \in MergedTimestamps }
        : m \in IF MERGED \notin issue.labels
                THEN label_merge_if_needed(self, issue.labels, acc)
                ELSE {<<issue.labels, acc>>} }

\* the answers of the test-classification collaborator: a state and the
\* number of failing test-run ids it names
Analyses == {[state |-> st, nids |-> n] : st \in TestingStates, n \in 0..MaxRuns}

I_classified_always_reproduce(self, baseline_tests, ta, acc) ==
    CASE ta.state = "tests-not-running" ->
           {I_resolve_flag_attention(self, "Tests aren't running - see details below", acc)}
      [] ta.state = "tests-pending" -> {resolve_wait("Tests are pending", WAIT_DELAY, acc)}
      [] ta.state = "tests-running" -> {resolve_wait("Tests are running", WAIT_DELAY, acc)}
      [] ta.state = "tests-failed" ->
           IF ta.nids > 0
           THEN I_resolve_start_reproduction(self, ta.nids, acc)
           ELSE {I_resolve_flag_attention(self, "Tests failed - see details below", acc)}
      [] ta.state = "tests-passed" ->
           {I_resolve_set_status(self, "Release Pending", "Final testing has passed.", acc)}
      [] ta.state = "tests-waived" ->
           {I_resolve_set_status(self, "Release Pending",
                "Final testing has been waived, moving to Release Pending.", acc)}
      [] OTHER -> {Raised("Unknown testing state", acc)}

I_classified(self, baseline_tests, ta, acc) ==
    CASE ta.state = "tests-not-running" ->
           {I_resolve_flag_attention(self, "Tests aren't running - see details below", acc)}
      [] ta.state = "tests-pending" -> {resolve_wait("Tests are pending", WAIT_DELAY, acc)}
      [] ta.state = "tests-running" -> {resolve_wait("Tests are running", WAIT_DELAY, acc)}
      [] ta.state = "tests-failed" ->
           IF baseline_tests = <<>> /\ ta.nids > 0
           THEN I_resolve_start_reproduction(self, ta.nids, acc)
           ELSE {I_resolve_flag_attention(self, "Tests failed - see details below", acc)}
      [] ta.state = "tests-passed" ->
           {I_resolve_set_status(self, "Release Pending", "Final testing has passed.", acc)}
      [] ta.state = "tests-waived" ->
           {I_resolve_set_status(self, "Release Pending",
                "Final testing has been waived, moving to Release Pending.", acc)}
      [] OTHER -> {Raised("Unknown testing state", acc)}

\* the gated preconditions of the post-advisory phase: the message of the
\* first one that is unmet, <<>> if all are met
NO_FIXED_IN_BUILD == "Issue has errata_link but no fixed_in_build"
NO_PRELIMINARY_TESTING == "Issue does not have Preliminary Testing set to Pass"
NO_TEST_COVERAGE == "Issue does not have Test Coverage set"

unmet_precondition_none_only(issue) ==
    IF ~issue.fixed_in_build THEN <<NO_FIXED_IN_BUILD>>
    ELSE IF issue.preliminary_testing # "Pass" THEN <<NO_PRELIMINARY_TESTING>>
    ELSE IF issue.test_coverage = "None" THEN <<NO_TEST_COVERAGE>>
    ELSE <<>>

unmet_precondition(issue) ==
    IF ~issue.fixed_in_build THEN <<NO_FIXED_IN_BUILD>>
    ELSE IF issue.preliminary_testing # "Pass" THEN <<NO_PRELIMINARY_TESTING>>
    ELSE IF issue.test_coverage \in {"None", "empty"} THEN <<NO_TEST_COVERAGE>>
    ELSE <<>>

run_after_errata_created_default(self, acc) ==
    LET issue == self.issue IN
    IF unmet_precondition(issue) # <<>> THEN
        {I_resolve_flag_attention(self, unmet_precondition(issue)[1], acc)}
    ELSE UNION {
        LET acc1 == m[2] IN
        CASE issue.status \in {"New", "Planning", "In Progress"} ->
               {I_resolve_set_status(self, "Integration",
                    "Preliminary testing has passed, moving to Integration", acc1)}
          [] issue.status = "Integration" ->
               IF REPRODUCING \in issue.labels
               THEN I_resolve_check_reproduction(self, acc1)
               ELSE UNION {
                      I_classified(self, issue.baseline, ta,
                          Read(acc1, <<"analyze_issue", ta.state, ta.nids,
                                       issue.baseline # <<>> >>))
                      : ta \in Analyses }
          [] issue.status \in {"Release Pending", "Closed"} ->
               {resolve_remove_work_item("Issue status is Release Pending or Closed", acc1)}
          [] OTHER -> {resolve_remove_work_item("Issue status is not handled", acc1)}
        : m \in label_merge_if_needed(self, issue.labels, acc) }

run_after_errata_created(self, acc) ==
    LET issue == self.issue IN
    IF unmet_precondition(issue) # <<>> THEN
        {I_resolve_flag_attention(self, unmet_precondition(issue)[1], acc)}
    ELSE UNION {
        LET acc1 == m[2] IN
        CASE issue.status \in {"New", "Planning", "In Progress"} ->
               {I_resolve_set_status(self, "Integration",
                    "Preliminary testing has passed, moving to Integration", acc1)}
          [] issue.status = "Integration" ->
               IF REPRODUCING \in issue.labels
               THEN I_resolve_check_reproduction(self, acc1)
               ELSE UNION {
                      I_classified(self, issue.baseline, ta,
                          Read(acc1, <<"analyze_issue", ta.state, ta.nids,
                                       issue.baseline # <<>> >>))
                      : ta \in Analyses }
          [] issue.status \in {"Release Pending", "Closed"} ->
               {resolve_remove_work_item("Issue status is Release Pending or Closed", acc1)}
          [] OTHER -> {Raised("Unknown issue status", acc1)}
        : m \in label_merge_if_needed(self, issue.labels, acc) }

I_run(self) ==
    LET issue == self.issue IN
    IF NEEDS_ATTENTION \in issue.labels /\ ~self.ignore_needs_attention THEN
        {resolve_remove_work_item("Issue has the jotnar_needs_attention label", NoAcc)}
    ELSE IF issue.components # 1 THEN
        {I_resolve_flag_attention(self, "This issue has multiple components.", NoAcc)}
    ELSE IF issue.errata_link = <<>> THEN run_before_errata_created(self, NoAcc)
    ELSE run_after_errata_created(self, NoAcc)

(***************************************************************************)
(* ErratumHandler.  self is [erratum, dry_run, ignore_needs_attention,     *)
(* track, related]: track is the state of the RHELMISC tracking issue that *)
(* carries the advisory's needs_attention tag, related the freshly fetched *)
(* linked issues (issue key -> snapshot).                                  *)
(***************************************************************************)
TrackStates == {"none", "open_labelled", "open_unlabelled", "closed"}

\* more than one open RHELMISC issue carries the advisory's tag: the lookup
\* by tag finds two and raises
SEVERAL_OPEN == "several_open"

\* get_issue_by_jotnar_tag(..., with_label="jotnar_needs_attention") is not None
erratum_needs_attention(track) == track = "open_labelled"

all_issues_are_release_pending(related) ==
    \A k \in DOMAIN related : related[k].status = "Release Pending"

jotnar_owns_all_issues(related) ==
    \A k \in DOMAIN related : related[k].assignee_bot

\* the same without the lookup: a tracking issue is created every time
E_resolve_flag_attention_creates(self, why, acc) ==
    WorkflowResult(why, -1,
        Call(acc, <<"create_issue", TrackKey(self.erratum.id), NEEDS_ATTENTION,
                    self.dry_run>>))

E_resolve_flag_attention(self, why, acc) ==
    IF self.track = SEVERAL_OPEN
    THEN Raised("Multiple open issues found with JOTNAR tag", acc)
    ELSE WorkflowResult(why, -1,
        IF self.track \in {"open_labelled", "open_unlabelled"}
        THEN Call(acc, <<"add_issue_label", TrackKey(self.erratum.id), NEEDS_ATTENTION,
                         self.dry_run>>)
        ELSE Call(acc, <<"create_issue", TrackKey(self.erratum.id), NEEDS_ATTENTION,
                         self.dry_run>>))

E_resolve_set_status(self, status, why, acc) ==
    WorkflowResult(why,
        IF status \in {"NEW_FILES", "QE"} THEN 0 ELSE -1,
        Call(acc, <<"erratum_change_state", self.erratum.id, status, self.dry_run>>))

\* the transition rule sets the advisory tracker may answer with
RuleNames == {"Stagepush", "Cat", "Securityalert", "Other"}
RuleOutcomes == {"OK", "BLOCK", "UNKNOWN"}
ToStatuses == {"QE", "REL_PREP", "PUSH_READY"}
RuleSets == [to_status : ToStatuses, rules : [RuleNames -> RuleOutcomes]]

\* the same with only BLOCK counted as not OK
all_ok_none_blocks(rule_set) == \A n \in RuleNames : rule_set.rules[n] # "BLOCK"

all_ok(rule_set) == \A n \in RuleNames : rule_set.rules[n] = "OK"

blocking_outcomes(rule_set) == {n \in RuleNames : rule_set.rules[n] # "OK"}

\* the latest stage push: its status (<<>> if there is none) and the last
\* timestamp of its log (<<>> if the log has none); the log of a COMPLETE push
\* ends now, exactly POST_PUSH_TESTING_TIMEOUT ago, or one time unit earlier
ErratumPushStatuses == {"QUEUED", "READY", "RUNNING", "WAITING_ON_PUB",
                        "POST_PUSH_PROCESSING", "COMPLETE", "FAILED"}
PushStatuses == {<<>>} \cup {<<p>> : p \in ErratumPushStatuses}
PushAges == {0, POST_PUSH_TESTING_TIMEOUT, POST_PUSH_TESTING_TIMEOUT + 1}
PushDetails == [status : PushStatuses \ {<<"COMPLETE">>}, updated_at : {<<>>}]
               \cup [status : {<<"COMPLETE">>},
                     updated_at : {<<>>} \cup {<<now - age>> : age \in PushAges}]

\* the same with the timeout reached at POST_PUSH_TESTING_TIMEOUT already
resolve_wait_for_cat_tests_at_timeout(self, acc) ==
    { LET acc1 == Read(acc, <<"erratum_get_latest_stage_push_details", pd>>) IN
      IF pd.status # <<"COMPLETE">> THEN
          resolve_wait("Stage push not complete, waiting for push to complete",
                       WAIT_DELAY, acc1)
      ELSE IF pd.updated_at = <<>> THEN
          E_resolve_flag_attention(self, "Cannot determine stage push completion time", acc1)
      ELSE IF now - pd.updated_at[1] >= POST_PUSH_TESTING_TIMEOUT THEN
          E_resolve_flag_attention(self,
              "CAT tests didn't complete successfully after 3 hours", acc1)
      ELSE resolve_wait("Stage push completed, waiting for CAT tests to complete",
                        WAIT_DELAY, acc1)
      : pd \in PushDetails }

resolve_wait_for_cat_tests(self, acc) ==
    { LET acc1 == Read(acc, <<"erratum_get_latest_stage_push_details", pd>>) IN
      IF pd.status # <<"COMPLETE">> THEN
          resolve_wait("Stage push not complete, waiting for push to complete",
                       WAIT_DELAY, acc1)
      ELSE IF pd.updated_at = <<>> THEN
          E_resolve_flag_attention(self, "Cannot determine stage push completion time", acc1)
      ELSE IF now - pd.updated_at[1] > POST_PUSH_TESTING_TIMEOUT THEN
          E_resolve_flag_attention(self,
              "CAT tests didn't complete successfully after 3 hours", acc1)
      ELSE resolve_wait("Stage push completed, waiting for CAT tests to complete",
                        WAIT_DELAY, acc1)
      : pd \in PushDetails }

\* the same with a push triggered whenever the latest push has not failed
E_stagepush_push_unless_failed(self, acc) ==
    { LET pd == [status |-> st]
          acc1 == Read(acc, <<"erratum_get_latest_stage_push_details", pd>>) IN
      IF pd.status = <<"FAILED">> THEN
          E_resolve_flag_attention(self, "Stage-push previously FAILED", acc1)
      ELSE resolve_wait("Stage-pushing erratum", WAIT_DELAY,
              Call(acc1, <<"erratum_push_to_stage", self.erratum.id, "stage",
                           self.dry_run>>))
      : st \in PushStatuses }

E_stagepush(self, acc) ==
    { LET pd == [status |-> st]
          acc1 == Read(acc, <<"erratum_get_latest_stage_push_details", pd>>) IN
      IF pd.status \in {<<>>, <<"COMPLETE">>} THEN
          resolve_wait("Stage-pushing erratum", WAIT_DELAY,
              Call(acc1, <<"erratum_push_to_stage", self.erratum.id, "stage",
                           self.dry_run>>))
      ELSE IF pd.status = <<"FAILED">> THEN
          E_resolve_flag_attention(self, "Stage-push previously FAILED", acc1)
      ELSE resolve_wait("Stage-push already in progress", WAIT_DELAY, acc1)
      : st \in PushStatuses }

\* the packages of the advisory's build map: one that already carries the
\* jotnar-product-listings-checked comment, or one that does not and has no
\* previous release, a previous release with the same file list or one with
\* a different file list
PackageStates == {"checked", "no_previous", "match", "mismatch"}
BuildMaps == UNION {[1..n -> PackageStates] : n \in 1..MaxPackages}

\* the packages are visited in turn; for the first one without the comment
\* the result of get_previous_erratum, an Erratum or None, is unpacked into
\* two names, which raises (ValueError, TypeError) before anything is
\* compared or commented
E_rel_prep_checks(self, new_status, acc) ==
    { LET acc1 == Read(acc, <<"get_erratum_build_map", build_map>>)
          unchecked == {i \in DOMAIN build_map : build_map[i] # "checked"}
      IN IF unchecked = {}
         THEN E_resolve_set_status(self, new_status, "Moving on, since all rules are OK", acc1)
         ELSE LET first == CHOOSE i \in unchecked : \A j \in unchecked : i <= j
              IN Raised("cannot unpack the result of get_previous_erratum",
                        Read(acc1, <<"get_previous_erratum", build_map[first]>>))
      : build_map \in BuildMaps }

\* the rules whose "name: details" line the message for unknown blocking
\* rules contains
blocking_rules_details(rule_set) == {n \in RuleNames : rule_set.rules[n] = "BLOCK"}

\* the same remedies with Cat looked at before Stagepush
E_remedy_cat_first(self, rule_set, acc) ==
    IF "Cat" \in blocking_outcomes(rule_set) THEN resolve_wait_for_cat_tests(self, acc)
    ELSE IF "Stagepush" \in blocking_outcomes(rule_set) THEN E_stagepush(self, acc)
    ELSE IF "Securityalert" \in blocking_outcomes(rule_set) THEN
        {resolve_wait("Refreshing security alerts", WAIT_DELAY,
            Call(acc, <<"erratum_refresh_security_alerts", self.erratum.id, "refresh",
                        self.dry_run>>))}
    ELSE {E_resolve_flag_attention(self, "Transition is blocked by unknown rules",
              Read(acc, <<"blocking_rules_details", blocking_rules_details(rule_set)>>))}

E_remedy(self, rule_set, acc) ==
    IF "Stagepush" \in blocking_outcomes(rule_set) THEN E_stagepush(self, acc)
    ELSE IF "Cat" \in blocking_outcomes(rule_set) THEN resolve_wait_for_cat_tests(self, acc)
    ELSE IF "Securityalert" \in blocking_outcomes(rule_set) THEN
        {resolve_wait("Refreshing security alerts", WAIT_DELAY,
            Call(acc, <<"erratum_refresh_security_alerts", self.erratum.id, "refresh",
                        self.dry_run>>))}
    ELSE {E_resolve_flag_attention(self, "Transition is blocked by unknown rules",
              Read(acc, <<"blocking_rules_details", blocking_rules_details(rule_set)>>))}

try_to_advance_erratum_unchecked(self, new_status, acc) ==
    UNION {
      LET acc1 == Read(acc, <<"get_erratum_transition_rules", rule_set, new_status>>) IN
      IF all_ok(rule_set) THEN
          IF new_status = "REL_PREP"
          THEN E_rel_prep_checks(self, new_status, acc1)
          ELSE {E_resolve_set_status(self, new_status, "Moving on, since all rules are OK",
                                     acc1)}
      ELSE E_remedy(self, rule_set, acc1)
      : rule_set \in RuleSets }

try_to_advance_erratum(self, new_status, acc) ==
    UNION {
      LET acc1 == Read(acc, <<"get_erratum_transition_rules", rule_set, new_status>>) IN
      IF rule_set.to_status # new_status THEN
          {E_resolve_flag_attention(self, "Next state is not the requested one", acc1)}
      ELSE IF all_ok(rule_set) THEN
          IF new_status = "REL_PREP"
          THEN E_rel_prep_checks(self, new_status, acc1)
          ELSE {E_resolve_set_status(self, new_status, "Moving on, since all rules are OK",
                                     acc1)}
      ELSE E_remedy(self, rule_set, acc1)
      : rule_set \in RuleSets }

E_by_status_any(self, acc) ==
    CASE self.erratum.status = "NEW_FILES" -> try_to_advance_erratum(self, "QE", acc)
      [] self.erratum.status = "QE" -> try_to_advance_erratum(self, "REL_PREP", acc)
      [] OTHER -> {resolve_remove_work_item("status is outside this handler", acc)}

E_by_status(self, acc) ==
    CASE self.erratum.status = "NEW_FILES" -> try_to_advance_erratum(self, "QE", acc)
      [] self.erratum.status = "QE" ->
           IF ~all_issues_are_release_pending(self.related)
           THEN {resolve_remove_work_item("Not all issues are release pending", acc)}
           ELSE try_to_advance_erratum(self, "REL_PREP", acc)
      [] OTHER -> {resolve_remove_work_item("status is outside this handler", acc)}

E_run(self) ==
    LET erratum == self.erratum IN
    IF ~self.ignore_needs_attention /\ erratum_needs_attention(self.track) THEN
        {resolve_remove_work_item("Erratum already flagged for human attention", NoAcc)}
    ELSE IF ~erratum.assigned_to_bot \/ ~erratum.package_owner_bot THEN
        IF jotnar_owns_all_issues(self.related)
        THEN {WorkflowResult("Changed ownership of erratum to Jotnar bot, re-processing", 0,
                 Call(NoAcc, <<"erratum_change_ownership", erratum.id, "jotnar-bot", FALSE>>))}
        ELSE {E_resolve_flag_attention(self,
                 "Erratum has issues not owned by Project Jotnar.", NoAcc)}
    ELSE E_by_status(self, NoAcc)

(***************************************************************************)
(* The trackers' reaction to the handlers' calls.  A call made with        *)
(* dry_run set only logs.  w is [issues, errata, tracking].                *)
(***************************************************************************)
NumSubmitted(calls, i) ==
    Cardinality({j \in 1..(i - 1) :
                    calls[j][1] = "testing_farm_reproduce_request_with_build"})

ApplyCall(w, calls, i) ==
    LET c == calls[i] IN
    IF c[4] THEN w
    ELSE CASE c[1] = "add_issue_label" /\ c[2] \in IssueKeys ->
               [w EXCEPT !.issues[c[2]].labels = @ \cup {c[3]},
                         !.issues[c[2]].baseline =
                             IF c[3] = REPRODUCING THEN <<NumSubmitted(calls, i)>> ELSE @]
           [] c[1] = "remove_issue_label" ->
               [w EXCEPT !.issues[c[2]].labels = @ \ {c[3]}]
           [] c[1] = "change_issue_status" ->
               [w EXCEPT !.issues[c[2]].status = c[3]]
           [] c[1] = "add_issue_label" /\ c[2] \notin IssueKeys ->
               [w EXCEPT !.tracking =
                   [e \in ErratumIds |->
                      IF c[2] = TrackKey(e) /\ @[e] # SEVERAL_OPEN THEN "open_labelled"
                      ELSE @[e]]]
           [] c[1] = "create_issue" ->
               [w EXCEPT !.tracking =
                   [e \in ErratumIds |->
                      IF c[2] # TrackKey(e) THEN @[e]
                      ELSE IF @[e] \in {"none", "closed"} THEN "open_labelled"
                      ELSE SEVERAL_OPEN]]
           [] c[1] = "erratum_change_state" ->
               [w EXCEPT !.errata[c[2]].status = c[3]]
           [] c[1] = "erratum_change_ownership" ->
               [w EXCEPT !.errata[c[2]].assigned_to_bot = TRUE,
                         !.errata[c[2]].package_owner_bot = TRUE]
           [] OTHER -> w

ApplyCalls(w, calls) ==
    LET Step[i \in 0..Len(calls)] ==
            IF i = 0 THEN w ELSE ApplyCall(Step[i - 1], calls, i)
    IN Step[Len(calls)]

World == [issues |-> issues, errata |-> errata, tracking |-> tracking]

\* get_issue(key, full=True) wrapped into an IssueHandler
IssueSelf(k) ==
    [issue |-> issues[k], dry_run |-> dry_run,
     ignore_needs_attention |-> ignore_needs_attention]

\* get_erratum(id) wrapped into an ErratumHandler, with what run() fetches
ErratumSelf(e) ==
    [erratum |-> errata[e], dry_run |-> dry_run,
     ignore_needs_attention |-> ignore_needs_attention,
     track |-> tracking[e],
     related |-> [k \in errata[e].jira_issues |-> issues[k]]]

HandlerRun(item) ==
    IF item.item_type = PROCESS_ISSUE THEN I_run(IssueSelf(item.item_data))
    ELSE E_run(ErratumSelf(item.item_data))

NoLast == [op |-> "none", item |-> <<>>, self |-> <<>>, out |-> <<>>]

(***************************************************************************)
(* The dispatch loop (process_once): pop one ready item, fetch the entity, *)
(* run its handler, apply the reschedule decision.                         *)
(***************************************************************************)
\* what process_once keeps of the handler's outcome
Logged(r) == [kind |-> r.kind, reschedule_in |-> r.reschedule_in, calls |-> r.calls]

ApplyResult_keep(q, item, r, t) ==
    IF r.kind = "raise" THEN q
    ELSE IF r.reschedule_in >= 0
         THEN schedule_work_items(q, {item}, r.reschedule_in, t)
         ELSE q

ApplyResult_drop_on_raise(q, item, r, t) ==
    IF r.kind = "raise" THEN remove_work_items(q, {item})
    ELSE IF r.reschedule_in >= 0
         THEN schedule_work_items(q, {item}, r.reschedule_in, t)
         ELSE remove_work_items(q, {item})

ApplyResult(q, item, r, t) ==
    IF r.kind = "raise" THEN q
    ELSE IF r.reschedule_in >= 0
         THEN schedule_work_items(q, {item}, r.reschedule_in, t)
         ELSE remove_work_items(q, {item})

WaitFirstReady ==
    /\ pc = "idle"
    /\ \E e \in FirstReady(queue, now) :
         /\ queue' = wait_first_ready_work_item(queue, e, now)
         /\ cur' = <<e.item>>
    /\ pc' = "handling"
    /\ last' = NoLast
    /\ UNCHANGED <<now, cpc, collected>>
    /\ UNCHANGED <<worldVars, cfgVars, cmpVars, failed>>

ProcessOnce ==
    /\ pc = "handling"
    /\ \E r \in {Logged(x) : x \in HandlerRun(cur[1])} :
         LET w == ApplyCalls(World, r.calls) IN
         /\ issues' = w.issues
         /\ errata' = w.errata
         /\ tracking' = w.tracking
         /\ queue' = ApplyResult(queue, cur[1], r, now)
         /\ last' = [op |-> "process_once", item |-> cur, self |-> <<>>, out |-> <<r>>]
    /\ pc' = "idle"
    /\ cur' = <<>>
    /\ UNCHANGED <<now, cpc, collected>>
    /\ UNCHANGED <<cfgVars, cmpVars, failed>>

(***************************************************************************)
(* The Collector (collect_and_schedule_work_items), a process of its own:  *)
(* query the trackers, diff against the queue, schedule what is new.       *)
(***************************************************************************)
\* CURRENT_ISSUES_JQL
CurrentIssues ==
    {k \in IssueKeys :
        /\ issues[k].status \in {"New", "In Progress", "Integration", "Release Pending"}
        /\ issues[k].errata_link # <<>>
        /\ NEEDS_ATTENTION \notin issues[k].labels}

erratum_all_issues_are_release_pending(e) ==
    \A k \in errata[e].jira_issues : issues[k].status = "Release Pending"

CollectedWorkItems ==
    {WorkItem(PROCESS_ISSUE, k) : k \in {i \in CurrentIssues :
                                            issues[i].status # "Release Pending"}}
    \cup
    {WorkItem(PROCESS_ERRATUM, e) :
        e \in {l \in {issues[k].errata_link[1] : k \in CurrentIssues} :
                 /\ \/ errata[l].status = "NEW_FILES"
                    \/ /\ errata[l].status = "QE"
                       /\ erratum_all_issues_are_release_pending(l)
                 /\ ~erratum_needs_attention(tracking[l])}}

CollectQuery ==
    /\ cpc = "idle"
    /\ cpc' = "queried"
    /\ collected' = CollectedWorkItems
    /\ last' = NoLast
    /\ UNCHANGED <<now, queue, pc, cur>>
    /\ UNCHANGED <<worldVars, cfgVars, cmpVars, failed>>

CollectDiff ==
    /\ cpc = "queried"
    /\ cpc' = "diffed"
    /\ collected' = collected \ get_all_work_items(queue)
    /\ last' = NoLast
    /\ UNCHANGED <<now, queue, pc, cur>>
    /\ UNCHANGED <<worldVars, cfgVars, cmpVars, failed>>

CollectSchedule_prune ==
    /\ cpc = "diffed"
    /\ cpc' = "idle"
    /\ queue' = schedule_work_items({e \in queue : e.item \in CollectedWorkItems},
                                    collected, 0, now)
    /\ collected' = {}
    /\ last' = NoLast
    /\ UNCHANGED <<now, pc, cur>>
    /\ UNCHANGED <<worldVars, cfgVars, cmpVars, failed>>

CollectSchedule ==
    /\ cpc = "diffed"
    /\ cpc' = "idle"
    /\ queue' = schedule_work_items(queue, collected, 0, now)
    /\ collected' = {}
    /\ last' = NoLast
    /\ UNCHANGED <<now, pc, cur>>
    /\ UNCHANGED <<worldVars, cfgVars, cmpVars, failed>>

\* the clear-queue command
ClearQueue ==
    /\ queue # {}
    /\ queue' = remove_all_work_items(queue)
    /\ last' = NoLast
    /\ UNCHANGED <<now, pc, cur, cpc, collected>>
    /\ UNCHANGED <<worldVars, cfgVars, cmpVars, failed>>

(***************************************************************************)
(* The environment: time passes; a human clears a needs-attention marker.  *)
(***************************************************************************)
Tick ==
    /\ now < MaxTime
    /\ now' = now + 1
    /\ last' = NoLast
    /\ UNCHANGED <<queueVars, worldVars, cfgVars, cmpVars, failed>>

HumanClearsIssue ==
    /\ \E k \in IssueKeys :
         /\ NEEDS_ATTENTION \in issues[k].labels
         /\ issues' = [issues EXCEPT ![k].labels = @ \ {NEEDS_ATTENTION}]
    /\ last' = NoLast
    /\ UNCHANGED <<now, errata, tracking>>
    /\ UNCHANGED <<queueVars, cfgVars, cmpVars, failed>>

HumanClearsErratum ==
    /\ \E e \in ErratumIds :
         /\ tracking[e] = "open_labelled"
         /\ \E t \in {"open_unlabelled", "closed"} :
              tracking' = [tracking EXCEPT ![e] = t]
    /\ last' = NoLast
    /\ UNCHANGED <<now, issues, errata>>
    /\ UNCHANGED <<queueVars, cfgVars, cmpVars, failed>>

Issue(k, st, lbl, c, link, fib, pt, tc, bot, bl) ==
    [key |-> k, status |-> st, labels |-> lbl, components |-> c, errata_link |-> link,
     fixed_in_build |-> fib, preliminary_testing |-> pt, test_coverage |-> tc,
     assignee_bot |-> bot, baseline |-> bl]

\* an issue outside the supervisor's query: closed, without advisory
UnlinkedIssue(k) == Issue(k, "Closed", {}, 1, <<>>, TRUE, "Pass", "set", TRUE, <<>>)

Erratum(e, st, ji, a, o) ==
    [id |-> e, status |-> st, jira_issues |-> ji, assigned_to_bot |-> a,
     package_owner_bot |-> o]

NoSuite == <<>>
NoOutput == <<>>
NoDocument == <<>>
NoComparison == <<>>
NoFailed == <<>>
NoBaselineTests == <<>>
NoLoaded == [called |-> FALSE, result |-> <<>>]

Init ==
    /\ now = 0
    /\ queue = {}
    /\ pc = "idle"
    /\ cur = <<>>
    /\ cpc = "idle"
    /\ collected = {}
    /\ last = NoLast
    /\ dry_run \in BOOLEAN
    /\ ignore_needs_attention \in BOOLEAN
    /\ \E o \in BOOLEAN :
         issues = [k \in IssueKeys |->
                     IF k = "I1"
                     THEN Issue(k, "In Progress", {}, 1, <<"E1">>, TRUE, "Pass", "set", o, <<>>)
                     ELSE UnlinkedIssue(k)]
    /\ \E a \in BOOLEAN :
         errata = [e \in ErratumIds |-> Erratum(e, "NEW_FILES", {"I1"}, a, TRUE)]
    /\ tracking = [e \in ErratumIds |-> "none"]
    /\ suite_a = NoSuite
    /\ suite_b = NoSuite
    /\ output = NoOutput
    /\ test_suites_a = NoDocument
    /\ test_suites_b = NoDocument
    /\ comparison = NoComparison
    /\ failed = NoFailed
    /\ workflow_value = NoBaselineTests
    /\ comments = <<>>
    /\ loaded = NoLoaded

Next ==
    \/ WaitFirstReady
    \/ ProcessOnce
    \/ CollectQuery
    \/ CollectDiff
    \/ CollectSchedule
    \/ ClearQueue
    \/ Tick
    \/ HumanClearsIssue
    \/ HumanClearsErratum

Spec == Init /\ [][Next]_vars

\* the Collector and the dispatch loop as the only processes on the queue
NextCollect ==
    \/ WaitFirstReady
    \/ ProcessOnce
    \/ CollectQuery
    \/ CollectDiff
    \/ CollectSchedule
    \/ Tick
    \/ HumanClearsIssue
    \/ HumanClearsErratum

SpecCollect == Init /\ [][NextCollect]_vars

\* the supervisor some dispatches into the life of an advisory: dry-run is
\* off, the advisory the bot owns has reached QE and its work item is queued
\* (try_to_advance_erratum re-queued it), its linked issue is at Integration
\* and has no work item yet
InitRequeue ==
    /\ now = 0
    /\ queue = {Entry(WorkItem(PROCESS_ERRATUM, "E1"), 0)}
    /\ pc = "idle"
    /\ cur = <<>>
    /\ cpc = "idle"
    /\ collected = {}
    /\ last = NoLast
    /\ dry_run = FALSE
    /\ ignore_needs_attention \in BOOLEAN
    /\ issues = [k \in IssueKeys |->
                   IF k = "I1"
                   THEN Issue(k, "Integration", {}, 1, <<"E1">>, TRUE, "Pass", "set", TRUE, <<>>)
                   ELSE UnlinkedIssue(k)]
    /\ errata = [e \in ErratumIds |-> Erratum(e, "QE", {"I1"}, TRUE, TRUE)]
    /\ tracking = [e \in ErratumIds |-> "none"]
    /\ suite_a = NoSuite
    /\ suite_b = NoSuite
    /\ output = NoOutput
    /\ test_suites_a = NoDocument
    /\ test_suites_b = NoDocument
    /\ comparison = NoComparison
    /\ failed = NoFailed
    /\ workflow_value = NoBaselineTests
    /\ comments = <<>>
    /\ loaded = NoLoaded

\* the Collector is run again and again and runs to its end; the dispatch
\* loop repeats and each of its iterations runs to its end
SpecRequeue ==
    /\ InitRequeue
    /\ [][NextCollect]_vars
    /\ WF_vars(CollectQuery \/ CollectDiff \/ CollectSchedule)
    /\ WF_vars(WaitFirstReady \/ ProcessOnce)

(***************************************************************************)
(* The repeating dispatch loop (do_process with repeat): each iteration    *)
(* is process_once inside try/except; an exception of the entity fetch or  *)
(* of the handler is logged, the loop sleeps 60 seconds and goes on.       *)
(***************************************************************************)
\* get_issue or get_erratum raised: nothing was read or called
FetchRaised == Raised("the entity fetch raised", NoAcc)

DoProcessOnce ==
    /\ pc = "handling"
    /\ \E r \in {Logged(x) : x \in HandlerRun(cur[1]) \cup {FetchRaised}} :
         LET w == ApplyCalls(World, r.calls) IN
         /\ issues' = w.issues
         /\ errata' = w.errata
         /\ tracking' = w.tracking
         /\ queue' = ApplyResult(queue, cur[1], r, now)
         /\ last' = [op |-> "do_process", item |-> cur, self |-> <<>>, out |-> <<r>>]
         /\ pc' = IF r.kind = "raise" THEN "paused" ELSE "idle"
         /\ failed' = IF r.kind = "raise" THEN cur
                      ELSE IF failed = cur THEN NoFailed ELSE failed
    /\ cur' = <<>>
    /\ UNCHANGED <<now, cpc, collected>>
    /\ UNCHANGED <<cfgVars, cmpVars>>

\* asyncio.sleep(60) is over: the loop starts its next iteration
SleepOver ==
    /\ pc = "paused"
    /\ pc' = "idle"
    /\ last' = NoLast
    /\ UNCHANGED <<now, queue, cur, cpc, collected>>
    /\ UNCHANGED <<worldVars, cfgVars, cmpVars, failed>>

\* the loop starts on a queue the Collector filled earlier
InitLoop ==
    /\ now = 0
    /\ pc = "idle"
    /\ cur = <<>>
    /\ cpc = "idle"
    /\ collected = {}
    /\ last = NoLast
    /\ dry_run \in BOOLEAN
    /\ ignore_needs_attention = FALSE
    /\ \E items \in SUBSET {WorkItem(PROCESS_ISSUE, "I1"), WorkItem(PROCESS_ERRATUM, "E1")} :
         queue = schedule_work_items({}, items, 0, 0)
    /\ \E st \in {"In Progress", "Integration", "Refinement"},
          lbl \in SUBSET {REPRODUCING}, pt \in {"None", "Pass"},
          bl \in {<<>>} \cup {<<n>> : n \in 1..MaxRuns} :
         issues = [k \in IssueKeys |->
                     IF k = "I1"
                     THEN Issue(k, st, lbl, 1, <<"E1">>, TRUE, pt, "set", TRUE, bl)
                     ELSE UnlinkedIssue(k)]
    /\ \E est \in {"NEW_FILES", "QE"} :
         errata = [e \in ErratumIds |-> Erratum(e, est, {"I1"}, TRUE, TRUE)]
    /\ tracking = [e \in ErratumIds |-> "none"]
    /\ suite_a = NoSuite
    /\ suite_b = NoSuite
    /\ output = NoOutput
    /\ test_suites_a = NoDocument
    /\ test_suites_b = NoDocument
    /\ comparison = NoComparison
    /\ failed = NoFailed
    /\ workflow_value = NoBaselineTests
    /\ comments = <<>>
    /\ loaded = NoLoaded

NextLoop ==
    \/ WaitFirstReady
    \/ DoProcessOnce
    \/ SleepOver
    \/ Tick

SpecLoop == InitLoop /\ [][NextLoop]_vars

(***************************************************************************)
(* The process-issue and process-erratum commands (do_process_issue,       *)
(* do_process_erratum): one run of a handler on a named entity, outside    *)
(* the queue.  SpecIssue and SpecErratum start such a command on every     *)
(* snapshot of a bounded set.                                              *)
(***************************************************************************)
DoProcessIssue ==
    /\ last.op = "none"
    /\ \E k \in {"I1"} : \E r \in I_run(IssueSelf(k)) :
         LET w == ApplyCalls(World, r.calls) IN
         /\ issues' = w.issues
         /\ errata' = w.errata
         /\ tracking' = w.tracking
         /\ last' = [op |-> "do_process_issue", item |-> <<WorkItem(PROCESS_ISSUE, k)>>,
                     self |-> <<IssueSelf(k)>>, out |-> <<r>>]
    /\ UNCHANGED <<now, queueVars, cfgVars, cmpVars, failed>>

DoProcessErratum ==
    /\ last.op = "none"
    /\ \E e \in ErratumIds : \E r \in E_run(ErratumSelf(e)) :
         LET w == ApplyCalls(World, r.calls) IN
         /\ issues' = w.issues
         /\ errata' = w.errata
         /\ tracking' = w.tracking
         /\ last' = [op |-> "do_process_erratum", item |-> <<WorkItem(PROCESS_ERRATUM, e)>>,
                     self |-> <<ErratumSelf(e)>>, out |-> <<r>>]
    /\ UNCHANGED <<now, queueVars, cfgVars, cmpVars, failed>>

InitIdle ==
    /\ now = 0
    /\ queue = {}
    /\ pc = "idle"
    /\ cur = <<>>
    /\ cpc = "idle"
    /\ collected = {}
    /\ last = NoLast
    /\ suite_a = NoSuite
    /\ suite_b = NoSuite
    /\ output = NoOutput
    /\ test_suites_a = NoDocument
    /\ test_suites_b = NoDocument
    /\ comparison = NoComparison
    /\ failed = NoFailed
    /\ workflow_value = NoBaselineTests
    /\ comments = <<>>
    /\ loaded = NoLoaded

InitIssue ==
    /\ InitIdle
    /\ dry_run \in BOOLEAN
    /\ ignore_needs_attention \in BOOLEAN
    /\ \E st \in IssueStatuses, lbl \in SUBSET (Labels \ {REBASED}), c \in 1..2,
          link \in {<<>>, <<"E1">>}, fib \in BOOLEAN,
          pt \in {"None", "Fail", "Pass"}, tc \in TestCoverages,
          bl \in {<<>>} \cup {<<n>> : n \in 1..MaxRuns} :
         issues = [k \in IssueKeys |->
                     IF k = "I1" THEN Issue(k, st, lbl, c, link, fib, pt, tc, TRUE, bl)
                     ELSE UnlinkedIssue(k)]
    /\ errata = [e \in ErratumIds |-> Erratum(e, "QE", {"I1"}, TRUE, TRUE)]
    /\ tracking = [e \in ErratumIds |-> "none"]

SpecIssue == InitIssue /\ [][DoProcessIssue]_vars

\* dispatch after dispatch of one issue with dry-run off, from the first
\* dispatch at Integration on; between dispatches a person may take the
\* needs-attention label off
InitDispatches ==
    /\ InitIdle
    /\ dry_run = FALSE
    /\ ignore_needs_attention \in BOOLEAN
    /\ issues = [k \in IssueKeys |->
                   IF k = "I1"
                   THEN Issue(k, "Integration", {}, 1, <<"E1">>, TRUE, "Pass", "set", TRUE, <<>>)
                   ELSE UnlinkedIssue(k)]
    /\ errata = [e \in ErratumIds |-> Erratum(e, "QE", {"I1"}, TRUE, TRUE)]
    /\ tracking = [e \in ErratumIds |-> "none"]

DispatchIssue ==
    /\ \E r \in I_run(IssueSelf("I1")) :
         LET w == ApplyCalls(World, r.calls) IN
         /\ issues' = w.issues
         /\ errata' = w.errata
         /\ tracking' = w.tracking
         /\ last' = [op |-> "do_process_issue", item |-> <<WorkItem(PROCESS_ISSUE, "I1")>>,
                     self |-> <<IssueSelf("I1")>>, out |-> <<r>>]
    /\ UNCHANGED <<now, queueVars, cfgVars, cmpVars, failed>>

NextDispatches ==
    \/ DispatchIssue
    \/ HumanClearsIssue

SpecDispatches == InitDispatches /\ [][NextDispatches]_vars

InitErratum ==
    /\ InitIdle
    /\ dry_run \in BOOLEAN
    /\ ignore_needs_attention \in BOOLEAN
    /\ \E ji \in {{"I1"}, {"I1", "I2"}}, st1 \in {"Integration", "Release Pending"},
          st2 \in {"Integration", "Release Pending"}, o \in BOOLEAN :
         /\ issues = [k \in IssueKeys |->
                     IF k = "I1"
                     THEN Issue(k, st1, {}, 1, <<"E1">>, TRUE, "Pass", "set", o, <<>>)
                     ELSE IF k \in ji
                     THEN Issue(k, st2, {}, 1, <<"E1">>, TRUE, "Pass", "set", TRUE, <<>>)
                     ELSE UnlinkedIssue(k)]
         /\ \E st \in ErrataStatuses, a \in BOOLEAN, po \in BOOLEAN :
              errata = [e \in ErratumIds |-> Erratum(e, st, ji, a, po)]
    /\ tracking \in [ErratumIds -> TrackStates]

SpecErratum == InitErratum /\ [][DoProcessErratum]_vars

(***************************************************************************)
(* compare_xunit: a test suite has a name, an architecture and the         *)
(* sequence of its test cases, each a name, a result, a reference and a    *)
(* log location; the comparison keeps a count per category and, for every  *)
(* category but works, the list of the compared test cases.  The inputs    *)
(* give a test case of document d named n the reference Ref(d, n) and the  *)
(* log location Log(d, n), so that where a value of a report comes from    *)
(* can be told.                                                            *)
(***************************************************************************)
TestNames == {"t1", "t2"}
XUnitTestCaseResults == {"pass", "fail", "error", "skipped"}
MISSING == "missing"
ComparisonResults == {"works", "regression", "fixed", "broken", "difference"}

Ref(d, n) == "ref-" \o d \o "-" \o n
Log(d, n) == "log-" \o d \o "-" \o n

XUnitTestCase(d, n, r) == [name |-> n, result |-> r, ref |-> Ref(d, n), log_url |-> Log(d, n)]

XUnitTestCases(d) == {XUnitTestCase(d, n, r) : n \in TestNames, r \in XUnitTestCaseResults}

XUnitTestSuite(name, arch, test_cases) ==
    [name |-> name, arch |-> arch, test_cases |-> test_cases]

XUnitTestSuites(d) ==
    {XUnitTestSuite("s1", "x86_64", tcs) :
        tcs \in UNION {[1..n -> XUnitTestCases(d)] : n \in 0..MaxCases}}

\* {tc.name: tc for tc in suite.test_cases}: a later case replaces an earlier
\* one of the same name
case_map(test_cases) ==
    [k \in {test_cases[i].name : i \in DOMAIN test_cases} |->
        LET idx == {i \in DOMAIN test_cases : test_cases[i].name = k}
        IN test_cases[CHOOSE i \in idx : \A j \in idx : j <= i]]

\* XUnitComparison as compare_xunit_files creates it
XUnitComparison ==
    [status |-> [generated |-> TRUE, reason |-> "Comparison generated successfully"],
     total_counts |-> [c \in ComparisonResults |-> 0],
     entries |-> [c \in ComparisonResults \ {"works"} |-> <<>>]]

comparison_result_error_unfixed(result_a, result_b) ==
    IF result_a = "pass" /\ result_b = "pass" THEN "works"
    ELSE IF result_a = "pass" /\ result_b \in {"fail", "error"} THEN "regression"
    ELSE IF result_a = "fail" /\ result_b = "pass" THEN "fixed"
    ELSE IF result_a \in {"fail", "error"} /\ result_b \in {"fail", "error"} THEN "broken"
    ELSE "difference"

comparison_result_skipped_passes(result_a, result_b) ==
    LET a == IF result_a = "skipped" THEN "pass" ELSE result_a
        b == IF result_b = "skipped" THEN "pass" ELSE result_b
    IN IF a = "pass" /\ b = "pass" THEN "works"
       ELSE IF a = "pass" /\ b \in {"fail", "error"} THEN "regression"
       ELSE IF a \in {"fail", "error"} /\ b = "pass" THEN "fixed"
       ELSE IF a \in {"fail", "error"} /\ b \in {"fail", "error"} THEN "broken"
       ELSE "difference"

\* the if/elif chain of compare_test_suites
comparison_result(result_a, result_b) ==
    IF result_a = "pass" /\ result_b = "pass" THEN "works"
    ELSE IF result_a = "pass" /\ result_b \in {"fail", "error"} THEN "regression"
    ELSE IF result_a \in {"fail", "error"} /\ result_b = "pass" THEN "fixed"
    ELSE IF result_a \in {"fail", "error"} /\ result_b \in {"fail", "error"} THEN "broken"
    ELSE "difference"

compare_key_log_of_some_case(arch, case_map_a, case_map_b, key, out) ==
    LET in_a == key \in DOMAIN case_map_a
        in_b == key \in DOMAIN case_map_b
        some_case == IF in_a THEN case_map_a[key] ELSE case_map_b[key]
        result_a == IF in_a THEN case_map_a[key].result ELSE MISSING
        result_b == IF in_b THEN case_map_b[key].result ELSE MISSING
        cr == comparison_result(result_a, result_b)
        counted == [out EXCEPT !.total_counts[cr] = @ + 1]
    IN IF cr # "works"
       THEN [counted EXCEPT !.entries[cr] =
                Append(@, [name |-> some_case.name, arch |-> arch, ref |-> some_case.ref,
                           result_a |-> result_a, result_b |-> result_b,
                           log_url_a |-> some_case.log_url, log_url_b |-> some_case.log_url])]
       ELSE counted

\* one iteration of the loop over all_keys
compare_key(arch, case_map_a, case_map_b, key, out) ==
    LET in_a == key \in DOMAIN case_map_a
        in_b == key \in DOMAIN case_map_b
        some_case == IF in_a THEN case_map_a[key] ELSE case_map_b[key]
        result_a == IF in_a THEN case_map_a[key].result ELSE MISSING
        result_b == IF in_b THEN case_map_b[key].result ELSE MISSING
        log_url_a == IF in_a THEN case_map_a[key].log_url ELSE ""
        log_url_b == IF in_b THEN case_map_b[key].log_url ELSE ""
        cr == comparison_result(result_a, result_b)
        counted == [out EXCEPT !.total_counts[cr] = @ + 1]
    IN IF cr # "works"
       THEN [counted EXCEPT !.entries[cr] =
                Append(@, [name |-> some_case.name, arch |-> arch, ref |-> some_case.ref,
                           result_a |-> result_a, result_b |-> result_b,
                           log_url_a |-> log_url_a, log_url_b |-> log_url_b])]
       ELSE counted

\* the orders in which the set all_keys may be iterated
Orders(S) ==
    {f \in [1..Cardinality(S) -> S] : \A i, j \in DOMAIN f : f[i] = f[j] => i = j}

all_keys(a, b) == DOMAIN case_map(a.test_cases) \cup DOMAIN case_map(b.test_cases)

\* order: the order in which the loop meets the elements of the set all_keys
compare_test_suites(a, b, out, order) ==
    LET case_map_a == case_map(a.test_cases)
        case_map_b == case_map(b.test_cases)
        Loop[i \in 0..Len(order)] ==
            IF i = 0 THEN out
            ELSE compare_key(a.arch, case_map_a, case_map_b, order[i], Loop[i - 1])
    IN Loop[Len(order)]

CompareTestSuites ==
    /\ output = NoOutput
    /\ \E order \in Orders(all_keys(suite_a, suite_b)) :
         output' = <<compare_test_suites(suite_a, suite_b, XUnitComparison, order)>>
    /\ UNCHANGED <<now, queueVars, worldVars, cfgVars, last, suite_a, suite_b,
                   test_suites_a, test_suites_b, comparison, failed, workflow_value,
                   comments, loaded>>

InitCompare ==
    /\ now = 0
    /\ queue = {}
    /\ pc = "idle"
    /\ cur = <<>>
    /\ cpc = "idle"
    /\ collected = {}
    /\ last = NoLast
    /\ dry_run = FALSE
    /\ ignore_needs_attention = FALSE
    /\ issues = [k \in IssueKeys |-> UnlinkedIssue(k)]
    /\ errata = [e \in ErratumIds |-> Erratum(e, "SHIPPED_LIVE", {}, TRUE, TRUE)]
    /\ tracking = [e \in ErratumIds |-> "none"]
    /\ suite_a \in XUnitTestSuites("A")
    /\ suite_b \in XUnitTestSuites("B")
    /\ output = NoOutput
    /\ test_suites_a = NoDocument
    /\ test_suites_b = NoDocument
    /\ comparison = NoComparison
    /\ failed = NoFailed
    /\ workflow_value = NoBaselineTests
    /\ comments = <<>>
    /\ loaded = NoLoaded

SpecCompare == InitCompare /\ [][CompareTestSuites]_vars

(***************************************************************************)
(* compare_xunit_files on two parsed documents, each the sequence of its   *)
(* test suites.  The documents of the inputs list at most one suite per    *)
(* (name, arch) and at most one test case per name in a suite.             *)
(***************************************************************************)
SuiteKeyOrder == << <<"s1", "aarch64">>, <<"s1", "x86_64">> >>
SuiteKeys == {SuiteKeyOrder[i] : i \in DOMAIN SuiteKeyOrder}
TestNameOrder == <<"t1", "t2">>
DocumentResults == {"pass", "fail", "error"}

\* the test cases of a suite of document d, given each name's result there
\* (MISSING: no such case)
TestCasesOf(d, f) ==
    LET present == SelectSeq(TestNameOrder, LAMBDA n : f[n] # MISSING)
    IN [i \in 1..Len(present) |-> XUnitTestCase(d, present[i], f[present[i]])]

\* g gives each suite key <<>> (no such suite) or <<f>> (a suite with cases f)
DocumentOf(d, g) ==
    LET present == SelectSeq(SuiteKeyOrder, LAMBDA k : g[k] # <<>>)
    IN [i \in 1..Len(present) |->
          XUnitTestSuite(present[i][1], present[i][2], TestCasesOf(d, g[present[i]][1]))]

Documents(d) ==
    {DocumentOf(d, g) :
        g \in [SuiteKeys -> {<<>>} \cup
                 {<<f>> : f \in [TestNames -> DocumentResults \cup {MISSING}]}]}

suite_keys(test_suites) == {<<test_suites[i].name, test_suites[i].arch>> : i \in DOMAIN test_suites}

\* next(suite for suite in test_suites if suite.name == name and suite.arch == arch)
first_suite(test_suites, key) ==
    LET idx == {i \in DOMAIN test_suites :
                  <<test_suites[i].name, test_suites[i].arch>> = key}
    IN test_suites[CHOOSE i \in idx : \A j \in idx : i <= j]

DIFFERENT_SUITES == "XUnit files contain different test suites and cannot be compared"

\* the ways the call can end: a ValueError, or the returned XUnitComparison for
\* some iteration order of the set of suite keys and of each suite's all_keys
compare_xunit_files(a, b) ==
    IF suite_keys(a) # suite_keys(b)
    THEN {[kind |-> "raise", error |-> DIFFERENT_SUITES]}
    ELSE UNION {
           LET Loop[i \in 0..Len(suite_order)] ==
                 IF i = 0 THEN {XUnitComparison}
                 ELSE LET sa == first_suite(a, suite_order[i])
                          sb == first_suite(b, suite_order[i])
                      IN {compare_test_suites(sa, sb, out, order) :
                            out \in Loop[i - 1], order \in Orders(all_keys(sa, sb))}
           IN {[kind |-> "return", output |-> out] : out \in Loop[Len(suite_order)]}
           : suite_order \in Orders(suite_keys(a)) }

\* XUnitComparison.to_toml: the tables and arrays of the dumped model in field
\* order, total_counts dropped if all counts are 0, empty lists dropped
to_toml(out) ==
    LET Field(c) == IF out.entries[c] = <<>> THEN <<>> ELSE << <<c, out.entries[c]>> >>
        counts == IF \A c \in ComparisonResults : out.total_counts[c] = 0 THEN <<>>
                  ELSE << <<"total_counts", out.total_counts>> >>
    IN << <<"status", out.status>> >> \o counts \o Field("regression") \o Field("fixed")
         \o Field("broken") \o Field("difference")

CompareXunitFiles ==
    /\ comparison = NoComparison
    /\ failed = NoFailed
    /\ \E c \in compare_xunit_files(test_suites_a, test_suites_b) : comparison' = <<c>>
    /\ UNCHANGED <<now, queueVars, worldVars, cfgVars, last, suite_a, suite_b, output,
                   test_suites_a, test_suites_b, failed, workflow_value, comments,
                   loaded>>

InitFiles ==
    /\ now = 0
    /\ queue = {}
    /\ pc = "idle"
    /\ cur = <<>>
    /\ cpc = "idle"
    /\ collected = {}
    /\ last = NoLast
    /\ suite_a = NoSuite
    /\ suite_b = NoSuite
    /\ output = NoOutput
    /\ test_suites_a \in Documents("A")
    /\ test_suites_b \in Documents("B")
    /\ comparison = NoComparison
    /\ failed = NoFailed
    /\ workflow_value = NoBaselineTests
    /\ comments = <<>>
    /\ loaded = NoLoaded
    /\ dry_run = FALSE
    /\ ignore_needs_attention = FALSE
    /\ issues = [k \in IssueKeys |-> UnlinkedIssue(k)]
    /\ errata = [e \in ErratumIds |-> Erratum(e, "SHIPPED_LIVE", {}, TRUE, TRUE)]
    /\ tracking = [e \in ErratumIds |-> "none"]

SpecFiles == InitFiles /\ [][CompareXunitFiles]_vars

(***************************************************************************)
(* The checkpoint comment of a baseline reproduction                       *)
(* (BaselineTests.format_issue_comment, BaselineTests.load_from_issue).    *)
(* A text is a sequence of lines and a line a sequence of tokens; the      *)
(* characters the parser looks at ("|", "[", "]", ":", " ") and the marker *)
(* text are tokens of their own, every other token is text without them.   *)
(* The empty string is the text of one empty line.                         *)
(***************************************************************************)
MARK == "failed tests with previous build "

TESTING_FARM_URL == "https://api.testing-farm.io/v0.1"

FirstAt(line, tok, from) ==
    IF \E k \in from..Len(line) : line[k] = tok
    THEN CHOOSE k \in from..Len(line) :
             line[k] = tok /\ \A j \in from..(k - 1) : line[j] # tok
    ELSE 0

LastAt(line, tok) ==
    IF \E k \in DOMAIN line : line[k] = tok
    THEN CHOOSE k \in DOMAIN line : line[k] = tok /\ \A j \in (k + 1)..Len(line) : line[j] # tok
    ELSE 0

\* "<sep>".join(items)
RECURSIVE join(_, _)
join(sep, items) ==
    IF items = <<>> THEN <<>>
    ELSE IF Len(items) = 1 THEN items[1]
    ELSE items[1] \o <<sep>> \o join(sep, Tail(items))

\* str.split(sep)
RECURSIVE split(_, _)
split(line, sep) ==
    LET k == FirstAt(line, sep, 1)
    IN  IF k = 0 THEN <<line>>
        ELSE <<SubSeq(line, 1, k - 1)>> \o split(SubSeq(line, k + 1, Len(line)), sep)

\* str.strip() of one line
RECURSIVE lstrip(_)
lstrip(line) ==
    IF line # <<>> /\ line[1] = " " THEN lstrip(Tail(line)) ELSE line

RECURSIVE rstrip(_)
rstrip(line) ==
    IF line # <<>> /\ line[Len(line)] = " " THEN rstrip(SubSeq(line, 1, Len(line) - 1))
    ELSE line

strip(line) == rstrip(lstrip(line))

\* "\n".join(lines).strip()
RECURSIVE drop_blank_head(_)
drop_blank_head(lines) ==
    IF lines # <<>> /\ strip(lines[1]) = <<>> THEN drop_blank_head(Tail(lines)) ELSE lines

RECURSIVE drop_blank_tail(_)
drop_blank_tail(lines) ==
    IF lines # <<>> /\ strip(lines[Len(lines)]) = <<>>
    THEN drop_blank_tail(SubSeq(lines, 1, Len(lines) - 1))
    ELSE lines

strip_text(lines) ==
    LET kept == drop_blank_tail(drop_blank_head(lines))
    IN  IF kept = <<>> THEN << <<>> >>
        ELSE [i \in DOMAIN kept |->
                IF i = 1 /\ i = Len(kept) THEN strip(kept[i])
                ELSE IF i = 1 THEN lstrip(kept[i])
                ELSE IF i = Len(kept) THEN rstrip(kept[i])
                ELSE kept[i]]

\* RequestWrapper.url, RequestWrapper.link
request_url(id) == <<TESTING_FARM_URL, "/requests/">> \o id

request_link(id) == <<"[">> \o id \o <<"|">> \o request_url(id) \o <<"]">>

\* BaselineComparison.attachment_name, BaselineComparison.attachment_link
attachment_name(c) == <<"comparison-">> \o c.baseline \o <<"--">> \o c.failed \o <<".toml">>

attachment_link(c) == <<"[", "compare", "|", "^">> \o attachment_name(c) \o <<"]">>

\* the State/Result cell of a row
state_cell(c) == IF c.state = "complete" THEN c.result ELSE c.state

comparison_row(c, include_attachments) ==
    <<"|">> \o join(", ", [i \in DOMAIN c.arches |-> <<c.arches[i]>>])
    \o <<"|">> \o request_link(c.failed)
    \o <<"|">> \o request_link(c.baseline)
    \o <<"|", state_cell(c)>>
    \o (IF include_attachments THEN <<"|">> \o attachment_link(c) ELSE <<>>)
    \o <<"|">>

\* BaselineTests.format_issue_comment: the whole text
render_issue_comment(value, include_attachments) ==
    LET states == [i \in DOMAIN value.comparisons |-> value.comparisons[i].state]
        message == format_issue_comment(states)
        state_header == IF settled(states) THEN "Result" ELSE "State"
    IN  value.failure_comment
        \o << <<>> >>
        \o << <<message, " ", MARK>> \o value.previous_build_nvr \o <<":">> >>
        \o << <<"|", "|", "Architecture", "|", "|", "Original Request", "|", "|",
                "Request With Old Build", "|", "|", state_header>>
              \o (IF include_attachments THEN <<"|", "|", "Comparison">> ELSE <<>>)
              \o <<"|", "|">> >>
        \o [i \in DOMAIN value.comparisons |->
              comparison_row(value.comparisons[i], include_attachments)]

\* re.match(".*failed tests with previous build (.*):", line): <<>> without a
\* match, else the group in a one-element sequence (both .* are greedy)
marker_starts(line) ==
    {i \in DOMAIN line : line[i] = MARK /\ \E j \in (i + 1)..Len(line) : line[j] = ":"}

match_previous_build(line) ==
    IF marker_starts(line) = {} THEN <<>>
    ELSE LET i == CHOOSE k \in marker_starts(line) : \A j \in marker_starts(line) : j <= k
         IN  << SubSeq(line, i + 1, LastAt(line, ":") - 1) >>

\* the first loop of load_from_issue over the lines of one comment: the
\* index of the first line that matches (0 if the loop runs to its end)
FirstMatchingLine(body) ==
    IF \E i \in DOMAIN body : match_previous_build(body[i]) # <<>>
    THEN CHOOSE i \in DOMAIN body :
             /\ match_previous_build(body[i]) # <<>>
             /\ \A j \in 1..(i - 1) : match_previous_build(body[j]) = <<>>
    ELSE 0

\* re.sub(r"\[([^|]+)\|([^]]+)\]", r"\1", line)
RECURSIVE remove_links(_)
remove_links(line) ==
    IF line = <<>> THEN <<>>
    ELSE IF line[1] = "["
    THEN LET k == FirstAt(line, "|", 2)
             m == IF k = 0 THEN 0 ELSE FirstAt(line, "]", k + 1)
         IN  IF k >= 3 /\ m >= k + 2
             THEN SubSeq(line, 2, k - 1) \o remove_links(SubSeq(line, m + 1, Len(line)))
             ELSE <<line[1]>> \o remove_links(Tail(line))
    ELSE <<line[1]>> \o remove_links(Tail(line))

starts_with_bars(line) == Len(line) >= 2 /\ line[1] = "|" /\ line[2] = "|"

starts_with_bar(line) == Len(line) >= 1 /\ line[1] = "|"

\* the body of the loop of load_from_issue for one comment: <<>> when the
\* loop continues with the next older comment
parse_comment(comment) ==
    LET body == comment.body
        mi == FirstMatchingLine(body)
    IN  IF mi = 0 THEN <<>>
        ELSE
          LET hi == IF \E i \in (mi + 1)..Len(body) : starts_with_bars(body[i])
                    THEN CHOOSE i \in (mi + 1)..Len(body) :
                            /\ starts_with_bars(body[i])
                            /\ \A j \in (mi + 1)..(i - 1) : ~starts_with_bars(body[j])
                    ELSE 0
          IN  IF hi = 0 THEN <<>>
              ELSE
                LET stop == IF \E i \in (hi + 1)..Len(body) : ~starts_with_bar(body[i])
                            THEN CHOOSE i \in (hi + 1)..Len(body) :
                                    /\ ~starts_with_bar(body[i])
                                    /\ \A j \in (hi + 1)..(i - 1) : starts_with_bar(body[j])
                            ELSE Len(body) + 1
                    parts == [i \in 1..(stop - hi - 1) |->
                                split(remove_links(body[hi + i]), "|")]
                    kept == SelectSeq(parts, LAMBDA p : Len(p) >= 4)
                IN  << [failure_comment |-> strip_text(SubSeq(body, 1, mi - 1)),
                        comparisons |-> [i \in DOMAIN kept |->
                                           [failed |-> strip(kept[i][3]),
                                            baseline |-> strip(kept[i][4])]],
                        previous_build_nvr |-> match_previous_build(body[mi])[1],
                        comment_id |-> comment.id] >>

\* BaselineTests.load_from_issue: <<>> for None
RECURSIVE load_from_issue(_)
load_from_issue(issue_comments) ==
    IF issue_comments = <<>> THEN <<>>
    ELSE LET parsed == parse_comment(issue_comments[Len(issue_comments)])
         IN  IF parsed # <<>> THEN parsed
             ELSE load_from_issue(SubSeq(issue_comments, 1, Len(issue_comments) - 1))

(***************************************************************************)
(* The checkpoint comment over the life of one reproduction: the value     *)
(* BaselineTests.create returned is rendered into a new comment            *)
(* (resolve_start_reproduction), other comments arrive, a later dispatch   *)
(* loads the value back (run_after_errata_created) or loads it, and once   *)
(* every run is settled rewrites the comment with the comparison column    *)
(* (resolve_check_reproduction).                                           *)
(***************************************************************************)
FailedRequestIds == {<<"f1">>, <<"f2">>}

BaselineRequestIds == {<<"b1">>, <<"b2">>}

\* TestingFarmRequest.arches of the requests there are: request f1 ran on one
\* architecture, every other request on two
request_arches(id) == IF id = <<"f1">> THEN <<"x86_64">> ELSE <<"x86_64", "aarch64">>

\* state and result of a Testing Farm request as a row shows them
RequestOutcomes == {[state |-> "running", result |-> "unknown"],
                    [state |-> "complete", result |-> "failed"],
                    [state |-> "error", result |-> "error"]}

SettledOutcomes == {o \in RequestOutcomes : o.state \in {"complete", "error", "canceled"}}

PreviousBuildNvrs == {<<"pkg-1.0-1.el9">>, <<"pkg-2", ":", "1.0-1.el9">>}

\* texts of the analysis of the failure: empty, one line, a table, and a text
\* that quotes the second line of an earlier checkpoint comment
FailureComments ==
    { << <<>> >>,
      << <<"Test", " ", "t1", " ", "fails", ":", " ", "timeout">> >>,
      << <<"|", "|", "Test", "|", "|", "Result", "|", "|">>,
         <<"|", "t1", "|", "fail", "|">> >>,
      << <<"As", " ", "before", ":">>,
         <<"Reproduced", " ", MARK, "pkg-0.9-1.el9", ":">> >> }

\* the pairings create returns: the reproduction run was just requested
BaselineComparisons ==
    { [failed |-> f, baseline |-> b, arches |-> request_arches(f), state |-> "new",
       result |-> "unknown"] :
        f \in FailedRequestIds, b \in BaselineRequestIds }

BaselineTestsValues ==
    { [failure_comment |-> fc, comparisons |-> cs, previous_build_nvr |-> nvr,
       comment_id |-> <<>>, include_attachments |-> FALSE] :
        fc \in FailureComments, nvr \in PreviousBuildNvrs,
        cs \in UNION {[1..n -> BaselineComparisons] : n \in 0..MaxRuns} }

\* the checkpoint comment of an earlier reproduction
EarlierValue ==
    [failure_comment |-> << <<"Test", " ", "t0", " ", "fails">> >>,
     comparisons |-> << [failed |-> <<"f0">>, baseline |-> <<"b0">>, arches |-> <<"x86_64">>,
                         state |-> "complete", result |-> "failed"] >>,
     previous_build_nvr |-> <<"pkg-0.8-1.el9">>,
     comment_id |-> <<1>>, include_attachments |-> TRUE]

\* comments of other authors: plain text, and a text with the marker line
\* and no table
ForeignBodies ==
    { << <<"Please", " ", "have", " ", "a", " ", "look">> >>,
      << <<"Reproducing", " ", MARK, "pkg-1.0-1.el9", ":">>, <<"see", " ", "above">> >> }

Comment(id, body) == [id |-> id, body |-> body]

CommentHistories ==
    {<<>>, <<Comment(1, render_issue_comment(EarlierValue, TRUE))>>}
    \cup {<<Comment(1, b)>> : b \in ForeignBodies}

InitComment ==
    /\ now = 0
    /\ queue = {}
    /\ pc = "idle"
    /\ cur = <<>>
    /\ cpc = "idle"
    /\ collected = {}
    /\ last = NoLast
    /\ suite_a = NoSuite
    /\ suite_b = NoSuite
    /\ output = NoOutput
    /\ test_suites_a = NoDocument
    /\ test_suites_b = NoDocument
    /\ comparison = NoComparison
    /\ failed = NoFailed
    /\ dry_run = FALSE
    /\ ignore_needs_attention = FALSE
    /\ issues = [k \in IssueKeys |-> UnlinkedIssue(k)]
    /\ errata = [e \in ErratumIds |-> Erratum(e, "SHIPPED_LIVE", {}, TRUE, TRUE)]
    /\ tracking = [e \in ErratumIds |-> "none"]
    /\ workflow_value \in {<<v>> : v \in BaselineTestsValues}
    /\ comments \in CommentHistories
    /\ loaded = NoLoaded

\* resolve_start_reproduction from the value create returned on: the comment
\* passed to add_issue_label
StartReproduction ==
    /\ workflow_value # NoBaselineTests
    /\ workflow_value[1].comment_id = <<>>
    /\ Len(comments) < MaxComments
    /\ LET id == Len(comments) + 1
       IN  /\ comments' = Append(comments,
                                 Comment(id, render_issue_comment(workflow_value[1], FALSE)))
           /\ workflow_value' = <<[workflow_value[1] EXCEPT !.comment_id = <<id>>]>>
    /\ loaded' = NoLoaded
    /\ UNCHANGED <<now, queueVars, worldVars, cfgVars, last, suite_a, suite_b, output,
                   test_suites_a, test_suites_b, comparison, failed>>

\* somebody else comments on the issue
ForeignComment ==
    /\ Len(comments) < MaxComments
    /\ \E b \in ForeignBodies : comments' = Append(comments, Comment(Len(comments) + 1, b))
    /\ UNCHANGED <<now, queueVars, worldVars, cfgVars, last, suite_a, suite_b, output,
                   test_suites_a, test_suites_b, comparison, failed, workflow_value, loaded>>

\* the load of run_after_errata_created (Integration, no reproducing label)
LoadFromIssue ==
    /\ loaded' = [called |-> TRUE, result |-> load_from_issue(comments)]
    /\ UNCHANGED <<now, queueVars, worldVars, cfgVars, last, suite_a, suite_b, output,
                   test_suites_a, test_suites_b, comparison, failed, workflow_value,
                   comments>>

\* resolve_check_reproduction: load, look at the runs, and when all of them
\* are settled rewrite the comment that was loaded
CheckReproduction ==
    /\ workflow_value # NoBaselineTests
    /\ workflow_value[1].comment_id # <<>>
    /\ ~workflow_value[1].include_attachments
    /\ LET result == load_from_issue(comments)
       IN  /\ loaded' = [called |-> TRUE, result |-> result]
           /\ IF result = <<>> THEN UNCHANGED <<workflow_value, comments>>
              ELSE \E outcomes \in [DOMAIN result[1].comparisons -> RequestOutcomes] :
                     LET n == Len(result[1].comparisons)
                         states == [i \in 1..n |-> outcomes[i].state]
                         fetched ==
                             [failure_comment |-> result[1].failure_comment,
                              comparisons |->
                                  [i \in 1..n |->
                                     [failed |-> result[1].comparisons[i].failed,
                                      baseline |-> result[1].comparisons[i].baseline,
                                      arches |->
                                          request_arches(result[1].comparisons[i].failed),
                                      state |-> outcomes[i].state,
                                      result |-> outcomes[i].result]],
                              previous_build_nvr |-> result[1].previous_build_nvr]
                     IN  IF ~settled(states) THEN UNCHANGED <<workflow_value, comments>>
                         ELSE /\ comments' =
                                   [i \in DOMAIN comments |->
                                      IF comments[i].id = result[1].comment_id
                                      THEN Comment(comments[i].id,
                                                   render_issue_comment(fetched, TRUE))
                                      ELSE comments[i]]
                              /\ workflow_value' =
                                   <<[workflow_value[1] EXCEPT !.include_attachments = TRUE]>>
    /\ UNCHANGED <<now, queueVars, worldVars, cfgVars, last, suite_a, suite_b, output,
                   test_suites_a, test_suites_b, comparison, failed>>

NextComment ==
    \/ StartReproduction
    \/ ForeignComment
    \/ LoadFromIssue
    \/ CheckReproduction

SpecComment == InitComment /\ [][NextComment]_vars

(***************************************************************************)
(* Vocabulary of the claims.                                               *)
(***************************************************************************)
\* this step is a dispatch: process_once ran a handler on cur[1]
Dispatch == pc = "handling" /\ pc' = "idle"

\* the handler's outcome in a state reached by a dispatch
Out == last.out[1]

Dispatched == last.op = "process_once"

EntriesOf(q, i) == {e \in q : e.item = i}

OneEntryPerIdentity == \A e, f \in queue : e.item = f.item => e = f

\* the needs-attention marker of the entity behind a work item
MarkerIn(i, iss, trk) ==
    IF i.item_type = PROCESS_ISSUE
    THEN NEEDS_ATTENTION \in iss[i.item_data].labels
    ELSE erratum_needs_attention(trk[i.item_data])

Marker(i) == MarkerIn(i, issues, tracking)

HasCall(calls, ops) == \E j \in DOMAIN calls : calls[j][1] \in ops

\* the outcome is an escalation: it asked for the needs-attention marker
Escalation(o) ==
    \E j \in DOMAIN o.calls :
        /\ o.calls[j][1] \in {"add_issue_label", "create_issue"}
        /\ o.calls[j][3] = NEEDS_ATTENTION

(***************************************************************************)
(* C1: the queue holds at most one entry per work item identity, and each  *)
(* schedule_work_items call - the dispatch loop's reschedule of the item   *)
(* it popped, the Collector's scheduling of new items - leaves exactly one *)
(* entry for the identity, with ready-time now + delay of that call, also  *)
(* when the entry it replaces was ready later.                             *)
(***************************************************************************)
C1_OneEntryLatestReadyTime ==
    /\ []OneEntryPerIdentity
    /\ [][/\ (Dispatch /\ last'.out[1].kind = "result"
                       /\ last'.out[1].reschedule_in >= 0)
             => EntriesOf(queue', cur[1])
                  = {Entry(cur[1], now + last'.out[1].reschedule_in)}
          /\ (cpc = "diffed" /\ cpc' = "idle")
             => \A i \in collected : EntriesOf(queue', i) = {Entry(i, now)}]_vars

\* an identity queued with a later ready-time was rescheduled at delay 0
C1_Witness ==
    /\ Dispatched
    /\ Out.kind = "result"
    /\ Out.reschedule_in = 0
    /\ EntriesOf(queue, last.item[1]) = {Entry(last.item[1], now)}
    /\ Cardinality(queue) = 2

(***************************************************************************)
(* C2: after a dispatch whose handler returned result r, the item is in    *)
(* the queue exactly once with ready-time now + r.reschedule_in if         *)
(* r.reschedule_in >= 0 and not in the queue if r.reschedule_in < 0, for   *)
(* issue items and erratum items alike; the entries of the other items are *)
(* unchanged.                                                              *)
(***************************************************************************)
C2_DispatchAppliesReschedule ==
    [][(Dispatch /\ last'.out[1].kind = "result")
       => /\ last'.out[1].reschedule_in >= 0
             => EntriesOf(queue', cur[1])
                  = {Entry(cur[1], now + last'.out[1].reschedule_in)}
          /\ last'.out[1].reschedule_in < 0 => EntriesOf(queue', cur[1]) = {}
          /\ \A i \in WorkItems \ {cur[1]} : EntriesOf(queue', i) = EntriesOf(queue, i)]_vars

\* an erratum item was removed by its handler while the issue item stays queued
C2_Witness ==
    /\ Dispatched
    /\ last.item[1].item_type = PROCESS_ERRATUM
    /\ Out.kind = "result"
    /\ Out.reschedule_in < 0
    /\ EntriesOf(queue, last.item[1]) = {}
    /\ queue # {}

(***************************************************************************)
(* C3 as stated: every escalation sets the needs-attention marker and      *)
(* returns reschedule_in < 0; while the marker is present and the re-admit *)
(* switch is off every dispatch of the entity returns reschedule_in < 0    *)
(* without any mutation, and no Collector run queues the entity.           *)
(***************************************************************************)
EscalationSetsMarker ==
    (Dispatch /\ Escalation(last'.out[1]))
    => /\ last'.out[1].kind = "result"
       /\ last'.out[1].reschedule_in < 0
       /\ MarkerIn(cur[1], issues', tracking')

FlaggedDispatchIsInert ==
    (Dispatch /\ Marker(cur[1]) /\ ~ignore_needs_attention)
    => /\ last'.out[1].kind = "result"
       /\ last'.out[1].reschedule_in < 0
       /\ last'.out[1].calls = <<>>
       /\ UNCHANGED worldVars

C3_Original ==
    [][/\ EscalationSetsMarker
       /\ FlaggedDispatchIsInert
       /\ \A i \in WorkItems :
            (Marker(i) /\ i \notin get_all_work_items(queue))
            => i \notin get_all_work_items(queue')]_vars

(***************************************************************************)
(* C3 amended: with dry-run off every escalation sets the needs-attention  *)
(* marker, and with dry-run on or off it returns reschedule_in < 0; while  *)
(* the marker is present and the re-admit switch is off every dispatch of  *)
(* the entity returns reschedule_in < 0 without any mutation; a Collector  *)
(* run selects no entity that carries the marker when the run queries the  *)
(* trackers, and queues nothing but what it selected.                      *)
(***************************************************************************)
C3_EscalationHaltsProcessing ==
    [][/\ ~dry_run => EscalationSetsMarker
       /\ (Dispatch /\ Escalation(last'.out[1]))
          => (last'.out[1].kind = "result" /\ last'.out[1].reschedule_in < 0)
       /\ FlaggedDispatchIsInert
       /\ (cpc = "idle" /\ cpc' = "queried") => \A i \in collected' : ~Marker(i)
       /\ (cpc = "queried" /\ cpc' = "diffed") => collected' \subseteq collected
       /\ (cpc = "diffed" /\ cpc' = "idle")
          => get_all_work_items(queue') \subseteq get_all_work_items(queue) \cup collected]_vars

\* a flagged issue was dispatched with the re-admit switch off and dry-run off
C3_Witness ==
    /\ Dispatched
    /\ ~dry_run
    /\ ~ignore_needs_attention
    /\ Marker(last.item[1])
    /\ Out.reschedule_in < 0
    /\ Out.calls = <<>>


(***************************************************************************)
(* Vocabulary of the claims about one run of a handler.                    *)
(***************************************************************************)
ErratumRun == last.op = "do_process_erratum"

IssueRun == last.op = "do_process_issue"

\* the snapshot the handler ran on
Self == last.self[1]

ReadsOf(o, name) == {o.reads[j] : j \in {i \in DOMAIN o.reads : o.reads[i][1] = name}}

CallsOf(o, name) == {o.calls[j] : j \in {i \in DOMAIN o.calls : o.calls[i][1] = name}}

\* the advisory is owned by the automation identity
Owned(erratum) == erratum.assigned_to_bot /\ erratum.package_owner_bot

(***************************************************************************)
(* C4: whenever the rule set try_to_advance_erratum(target) fetched names  *)
(* a to_status other than target, whatever the outcomes of its rules, the  *)
(* run returns reschedule_in < 0 and asks for the needs-attention marker   *)
(* (which is set unless dry-run is on), asks for no status change, no      *)
(* stage push and no security-alert refresh, and leaves the advisory's     *)
(* status as it was.                                                       *)
(***************************************************************************)
C4_ToStatusMismatchEscalates ==
    ErratumRun =>
      \A rd \in ReadsOf(Out, "get_erratum_transition_rules") :
        rd[2].to_status # rd[3] =>
          /\ Out.kind = "result"
          /\ Out.reschedule_in < 0
          /\ Escalation(Out)
          /\ ~dry_run => erratum_needs_attention(tracking[Self.erratum.id])
          /\ ~HasCall(Out.calls, {"erratum_change_state", "erratum_push_to_stage",
                                  "erratum_refresh_security_alerts"})
          /\ errata[Self.erratum.id].status = Self.erratum.status

\* the fetched set named another status while every one of its rules was OK
C4_Witness ==
    /\ ErratumRun
    /\ ~dry_run
    /\ \E rd \in ReadsOf(Out, "get_erratum_transition_rules") :
         /\ rd[2].to_status # rd[3]
         /\ \A n \in RuleNames : rd[2].rules[n] = "OK"
    /\ Escalation(Out)
    /\ tracking[Self.erratum.id] = "open_labelled"

(***************************************************************************)
(* C5: when the fetched rule set names the target and not all of its rules *)
(* are OK, the run applies exactly one of the four remedies: Stagepush's   *)
(* if Stagepush is not OK; Cat's if Cat is not OK and Stagepush is; the    *)
(* security-alert refresh if Securityalert is not OK and Stagepush and Cat *)
(* are; the unknown-rule escalation if all three are OK.  It asks for a    *)
(* stage push only under the first remedy, for a refresh only under the    *)
(* third, and for no status change.                                        *)
(***************************************************************************)
StagepushRemedy(o) ==
    o.status \in {"Stage-pushing erratum", "Stage-push previously FAILED",
                  "Stage-push already in progress"}

CatRemedy(o) ==
    o.status \in {"Stage push not complete, waiting for push to complete",
                  "Cannot determine stage push completion time",
                  "CAT tests didn't complete successfully after 3 hours",
                  "Stage push completed, waiting for CAT tests to complete"}

SecurityalertRemedy(o) ==
    /\ o.status = "Refreshing security alerts"
    /\ HasCall(o.calls, {"erratum_refresh_security_alerts"})

UnknownRemedy(o) ==
    /\ o.status = "Transition is blocked by unknown rules"
    /\ Escalation(o)

C5_RemedyPriority ==
    ErratumRun =>
      \A rd \in ReadsOf(Out, "get_erratum_transition_rules") :
        LET notOK(n) == rd[2].rules[n] # "OK" IN
        (rd[2].to_status = rd[3] /\ \E n \in RuleNames : notOK(n)) =>
          /\ Out.kind = "result"
          /\ StagepushRemedy(Out) <=> notOK("Stagepush")
          /\ CatRemedy(Out) <=> (notOK("Cat") /\ ~notOK("Stagepush"))
          /\ SecurityalertRemedy(Out)
               <=> (notOK("Securityalert") /\ ~notOK("Cat") /\ ~notOK("Stagepush"))
          /\ UnknownRemedy(Out)
               <=> (~notOK("Securityalert") /\ ~notOK("Cat") /\ ~notOK("Stagepush"))
          /\ HasCall(Out.calls, {"erratum_push_to_stage"}) => StagepushRemedy(Out)
          /\ HasCall(Out.calls, {"erratum_refresh_security_alerts"})
               => SecurityalertRemedy(Out)
          /\ ~HasCall(Out.calls, {"erratum_change_state"})
          /\ Cardinality({j \in DOMAIN Out.calls :
                            Out.calls[j][1] \in {"erratum_push_to_stage",
                                                 "erratum_refresh_security_alerts"}}) <= 1

\* Stagepush, Cat and Securityalert all blocked, and only the stage push was started
C5_Witness ==
    /\ ErratumRun
    /\ \E rd \in ReadsOf(Out, "get_erratum_transition_rules") :
         /\ rd[2].to_status = rd[3]
         /\ \A n \in {"Stagepush", "Cat", "Securityalert"} : rd[2].rules[n] = "BLOCK"
    /\ HasCall(Out.calls, {"erratum_push_to_stage"})
    /\ ~HasCall(Out.calls, {"erratum_refresh_security_alerts"})
    /\ Out.reschedule_in > 0

(***************************************************************************)
(* C6 as stated: no run asks for the status Rel Prep while some linked     *)
(* issue is not Release Pending; for an advisory in QE the run tries to    *)
(* advance to Rel Prep only if every linked issue is Release Pending and   *)
(* otherwise removes the work item without any mutation; for an advisory   *)
(* in New Files it only tries to advance to QE; for an advisory in any     *)
(* other status it removes the work item without any mutation.             *)
(***************************************************************************)
AllReleasePending(self) ==
    \A k \in DOMAIN self.related : self.related[k].status = "Release Pending"

RemovedWithoutMutation ==
    /\ Out.kind = "result"
    /\ Out.reschedule_in < 0
    /\ Out.calls = <<>>
    /\ errata[Self.erratum.id] = Self.erratum
    /\ tracking[Self.erratum.id] = Self.track

NeverRelPrepEarly ==
    /\ ~AllReleasePending(Self)
       => /\ \A c \in CallsOf(Out, "erratum_change_state") : c[3] # "REL_PREP"
          /\ errata[Self.erratum.id].status # "REL_PREP" \/ Self.erratum.status = "REL_PREP"
    /\ Self.erratum.status = "QE"
       => \A rd \in ReadsOf(Out, "get_erratum_transition_rules") :
             rd[3] = "REL_PREP" /\ AllReleasePending(Self)
    /\ Self.erratum.status = "NEW_FILES"
       => /\ \A rd \in ReadsOf(Out, "get_erratum_transition_rules") : rd[3] = "QE"
          /\ \A c \in CallsOf(Out, "erratum_change_state") : c[3] = "QE"

C6_Original ==
    ErratumRun =>
      /\ NeverRelPrepEarly
      /\ (Self.erratum.status = "QE" /\ ~AllReleasePending(Self)) => RemovedWithoutMutation
      /\ Self.erratum.status \notin {"NEW_FILES", "QE"} => RemovedWithoutMutation

(***************************************************************************)
(* C6 amended: no run asks for the status Rel Prep while some linked issue *)
(* is not Release Pending; for an advisory in QE the run tries to advance  *)
(* to Rel Prep only if every linked issue is Release Pending; for an       *)
(* advisory in New Files it only tries to advance to QE; an advisory owned *)
(* by the automation identity that is in QE with some linked issue not     *)
(* Release Pending, or in any status other than New Files and QE, is       *)
(* removed without any mutation; for an advisory not owned by it (and not  *)
(* skipped as flagged) the run claims ownership or escalates instead,      *)
(* whatever the status.                                                    *)
(***************************************************************************)
C6_RelPrepOnlyWhenAllReleasePending ==
    ErratumRun =>
      /\ NeverRelPrepEarly
      /\ (Owned(Self.erratum) /\ Self.erratum.status = "QE" /\ ~AllReleasePending(Self))
         => RemovedWithoutMutation
      /\ (Owned(Self.erratum) /\ Self.erratum.status \notin {"NEW_FILES", "QE"})
         => RemovedWithoutMutation
      /\ (~Owned(Self.erratum)
          /\ ~(erratum_needs_attention(Self.track) /\ ~Self.ignore_needs_attention))
         => /\ Out.kind = "result"
            /\ Escalation(Out) \/ HasCall(Out.calls, {"erratum_change_ownership"})
            /\ Out.reads = <<>>

\* an owned advisory in QE with a linked issue still at Integration was removed
C6_Witness ==
    /\ ErratumRun
    /\ Owned(Self.erratum)
    /\ Self.erratum.status = "QE"
    /\ ~AllReleasePending(Self)
    /\ ~(erratum_needs_attention(Self.track) /\ ~Self.ignore_needs_attention)
    /\ RemovedWithoutMutation


(***************************************************************************)
(* C7 as stated: on an issue at Integration with the advisory link set,    *)
(* the gated preconditions met and neither the reproducing-tests nor the   *)
(* needs-attention label, IssueHandler.run() classifies the tests, asks    *)
(* for the status Release Pending exactly if the classification is passed  *)
(* or waived, and then returns reschedule_in < 0.                          *)
(***************************************************************************)
ReadyForClassification(issue) ==
    /\ issue.status = "Integration"
    /\ issue.errata_link # <<>>
    /\ issue.fixed_in_build
    /\ issue.preliminary_testing = "Pass"
    /\ issue.test_coverage = "set"
    /\ REPRODUCING \notin issue.labels
    /\ NEEDS_ATTENTION \notin issue.labels

AsksReleasePending(o) ==
    \E c \in CallsOf(o, "change_issue_status") : c[3] = "Release Pending"

ReleasePendingIffPassedOrWaived ==
    /\ Cardinality(ReadsOf(Out, "analyze_issue")) = 1
    /\ \A rd \in ReadsOf(Out, "analyze_issue") :
         AsksReleasePending(Out) <=> rd[2] \in {"tests-passed", "tests-waived"}
    /\ AsksReleasePending(Out)
       => /\ Out.kind = "result"
          /\ Out.reschedule_in < 0
          /\ ~dry_run => issues[Self.issue.key].status = "Release Pending"

AddsReproducingLabel(o) ==
    \E c \in CallsOf(o, "add_issue_label") : c[3] = REPRODUCING

StartsReproduction(o) ==
    /\ ReadsOf(o, "BaselineTests.create") # {}
    /\ AddsReproducingLabel(o)
    /\ o.kind = "result"
    /\ o.reschedule_in > 0

NoReproduction(o) ==
    /\ ReadsOf(o, "BaselineTests.create") = {}
    /\ CallsOf(o, "testing_farm_reproduce_request_with_build") = {}
    /\ ~AddsReproducingLabel(o)

EscalatesWith(o, messages) ==
    /\ o.kind = "result"
    /\ o.reschedule_in < 0
    /\ Escalation(o)
    /\ o.status \in messages

\* rd is <<"analyze_issue", state, number of failing ids, earlier reproduction recorded>>
Reproducible(rd) == rd[3] >= 1 /\ ~rd[4]

C8_Original ==
    IssueRun =>
      \A rd \in ReadsOf(Out, "analyze_issue") :
        rd[2] = "tests-failed" =>
          /\ StartsReproduction(Out) <=> Reproducible(rd)
          /\ ~Reproducible(rd)
             => /\ EscalatesWith(Out, {"Tests failed - see details below"})
                /\ NoReproduction(Out)

(***************************************************************************)
(* C8 amended: when the tests were classified as failed, the run starts    *)
(* the reproduction, adds the reproducing-tests label and returns          *)
(* reschedule_in > 0 only if the classification named at least one failing *)
(* test-run id and the issue's comments record no earlier reproduction;    *)
(* in that case it either does so, submitting one run per id, or it        *)
(* escalates without adding the label, saying that no previous advisory    *)
(* was found, that the previous build could not be determined, or that a   *)
(* submission failed (runs submitted before the failure stay submitted).   *)
(* In every other failed case it escalates with "Tests failed - see        *)
(* details below" and starts no reproduction.                              *)
(***************************************************************************)
C8_FailedStartsReproductionOnce ==
    IssueRun =>
      \A rd \in ReadsOf(Out, "analyze_issue") :
        rd[2] = "tests-failed" =>
          /\ StartsReproduction(Out) => Reproducible(rd)
          /\ Reproducible(rd)
             => \/ /\ StartsReproduction(Out)
                   /\ ~Escalation(Out)
                   /\ Cardinality({j \in DOMAIN Out.calls :
                          Out.calls[j][1] = "testing_farm_reproduce_request_with_build"})
                        = rd[3]
                \/ /\ EscalatesWith(Out, {NO_PREVIOUS_ERRATUM,
                                          NO_PREVIOUS_BUILD_NVR,
                                          CREATE_FAILED})
                   /\ ~AddsReproducingLabel(Out)
          /\ ~Reproducible(rd)
             => /\ EscalatesWith(Out, {"Tests failed - see details below"})
                /\ NoReproduction(Out)

\* failing ids and no earlier reproduction: the reproduction was started
C8_Witness ==
    /\ IssueRun
    /\ ~dry_run
    /\ \E rd \in ReadsOf(Out, "analyze_issue") : rd[2] = "tests-failed" /\ Reproducible(rd)
    /\ StartsReproduction(Out)
    /\ REPRODUCING \in issues[Self.issue.key].labels

(***************************************************************************)
(* C9: when run_after_errata_created runs (advisory link set, one          *)
(* component, not skipped as flagged) on an issue whose fixed-in-build is  *)
(* unset, whose preliminary-testing is not Pass or whose test-coverage is  *)
(* unset or empty, whatever the issue's status, it escalates with the      *)
(* message of such a field and returns reschedule_in < 0; the run asks for *)
(* nothing but the needs-attention label and consults neither the test     *)
(* classifier nor the reproduction workflow nor any other collaborator.    *)
(***************************************************************************)
PostAdvisoryPhase(self) ==
    /\ self.issue.errata_link # <<>>
    /\ self.issue.components = 1
    /\ ~(NEEDS_ATTENTION \in self.issue.labels /\ ~self.ignore_needs_attention)

C9_UnmetPreconditionEscalates ==
    (/\ IssueRun
     /\ PostAdvisoryPhase(Self)
     /\ \/ ~Self.issue.fixed_in_build
        \/ Self.issue.preliminary_testing # "Pass"
        \/ Self.issue.test_coverage \in {"None", "empty"})
    => /\ EscalatesWith(Out, {NO_FIXED_IN_BUILD, NO_PRELIMINARY_TESTING, NO_TEST_COVERAGE})
       /\ Out.status = NO_FIXED_IN_BUILD => ~Self.issue.fixed_in_build
       /\ Out.status = NO_PRELIMINARY_TESTING => Self.issue.preliminary_testing # "Pass"
       /\ Out.status = NO_TEST_COVERAGE => Self.issue.test_coverage \in {"None", "empty"}
       /\ Len(Out.calls) = 1
       /\ Out.reads = <<>>
       /\ issues[Self.issue.key].status = Self.issue.status
       /\ ~dry_run => NEEDS_ATTENTION \in issues[Self.issue.key].labels

\* an empty test-coverage list on a closed issue was escalated
C9_Witness ==
    /\ IssueRun
    /\ PostAdvisoryPhase(Self)
    /\ Self.issue.status = "Closed"
    /\ Self.issue.fixed_in_build
    /\ Self.issue.preliminary_testing = "Pass"
    /\ Self.issue.test_coverage = "empty"
    /\ Out.status = NO_TEST_COVERAGE
    /\ NEEDS_ATTENTION \in issues[Self.issue.key].labels


(***************************************************************************)
(* C10: for every test case name of the two suites, with result_a and      *)
(* result_b its results there (missing if the suite has no such case),     *)
(* compare counts the case under works for pass/pass, regression for pass  *)
(* then fail or error, fixed for fail or error then pass, broken for fail  *)
(* or error on both sides, and difference for every other pair, and lists  *)
(* it under that category unless the category is works.                    *)
(***************************************************************************)
ResultIn(test_cases, key) ==
    IF \E i \in DOMAIN test_cases : test_cases[i].name = key
    THEN LET i == CHOOSE n \in DOMAIN test_cases :
                      /\ test_cases[n].name = key
                      /\ \A m \in DOMAIN test_cases : test_cases[m].name = key => m <= n
         IN test_cases[i].result
    ELSE "missing"

Category(a, b) ==
    CASE <<a, b>> = <<"pass", "pass">> -> "works"
      [] <<a, b>> \in {<<"pass", "fail">>, <<"pass", "error">>} -> "regression"
      [] <<a, b>> \in {<<"fail", "pass">>, <<"error", "pass">>} -> "fixed"
      [] <<a, b>> \in {<<"fail", "fail">>, <<"fail", "error">>,
                       <<"error", "fail">>, <<"error", "error">>} -> "broken"
      [] OTHER -> "difference"

Compared == output # NoOutput

KeysOfCategory(c) ==
    {k \in TestNames :
        /\ <<ResultIn(suite_a.test_cases, k), ResultIn(suite_b.test_cases, k)>>
             # <<"missing", "missing">>
        /\ Category(ResultIn(suite_a.test_cases, k), ResultIn(suite_b.test_cases, k)) = c}

C10_ComparisonTable ==
    Compared =>
      \A c \in ComparisonResults :
        /\ output[1].total_counts[c] = Cardinality(KeysOfCategory(c))
        /\ c # "works"
           => LET l == output[1].entries[c] IN
              /\ Len(l) = Cardinality(KeysOfCategory(c))
              /\ {[name |-> l[i].name, result_a |-> l[i].result_a,
                    result_b |-> l[i].result_b] : i \in DOMAIN l}
                   = {[name |-> k, result_a |-> ResultIn(suite_a.test_cases, k),
                       result_b |-> ResultIn(suite_b.test_cases, k)] :
                        k \in KeysOfCategory(c)}

\* one case skipped then passing, one case missing from the first suite
C10_Witness ==
    /\ Compared
    /\ ResultIn(suite_a.test_cases, "t1") = "skipped"
    /\ ResultIn(suite_b.test_cases, "t1") = "pass"
    /\ ResultIn(suite_a.test_cases, "t2") = "missing"
    /\ ResultIn(suite_b.test_cases, "t2") = "error"
    /\ output[1].total_counts["difference"] = 2
    /\ Len(output[1].entries["difference"]) = 2


(***************************************************************************)
(* Vocabulary of the claims about compare_xunit_files.                     *)
(***************************************************************************)
FilesCompared == comparison # NoComparison

Returned == FilesCompared /\ comparison[1].kind = "return"

Report == comparison[1].output

KeySetsDiffer == suite_keys(test_suites_a) # suite_keys(test_suites_b)

(***************************************************************************)
(* C11 as stated: when the sets of (suite name, arch) keys of the two      *)
(* documents differ, compare_xunit_files returns an XUnitComparison whose  *)
(* status has generated = false and a reason, with every count zero and    *)
(* every category list empty.  compare_xunit_files raises ValueError       *)
(* instead.                                                                *)
(***************************************************************************)
C11_Original ==
    (FilesCompared /\ KeySetsDiffer) =>
      /\ comparison[1].kind = "return"
      /\ ~Report.status.generated
      /\ Report.status.reason # ""
      /\ \A c \in ComparisonResults : Report.total_counts[c] = 0
      /\ \A c \in ComparisonResults \ {"works"} : Report.entries[c] = <<>>

\* what the code does on differing key sets: no XUnitComparison, a ValueError
C11_DifferentSuitesRaise ==
    (FilesCompared /\ KeySetsDiffer) =>
      comparison[1] = [kind |-> "raise", error |-> DIFFERENT_SUITES]

\* document B lacks a suite of document A and the call has ended
C11_Witness ==
    /\ FilesCompared
    /\ Len(test_suites_a) = 2
    /\ Len(test_suites_b) = 1
    /\ comparison[1].kind = "raise"


(***************************************************************************)
(* C12 as stated: every call of compare_xunit_files on the same two        *)
(* documents yields the same serialized report, and in each category list  *)
(* the entries are in the order of their test names, whatever the          *)
(* iteration order of the sets of suite keys and of test-case names.  The  *)
(* code appends the entries in the iteration order of those sets.          *)
(***************************************************************************)
NamePosition(n) == CHOOSE i \in DOMAIN TestNameOrder : TestNameOrder[i] = n

OrderedByTestName(l) ==
    \A i, j \in DOMAIN l : i < j => NamePosition(l[i].name) <= NamePosition(l[j].name)

C12_Original ==
    Returned =>
      /\ \A c \in compare_xunit_files(test_suites_a, test_suites_b) :
           to_toml(c.output) = to_toml(Report)
      /\ \A c \in ComparisonResults \ {"works"} : OrderedByTestName(Report.entries[c])

\* one suite, both of its cases regressed, and t2 is listed before t1
C12_Witness ==
    /\ Returned
    /\ Len(test_suites_a) = 1
    /\ Len(Report.entries["regression"]) = 2
    /\ Report.entries["regression"][1].name = "t2"
    /\ Report.entries["regression"][2].name = "t1"


(***************************************************************************)
(* C13: for all documents A and B with equal suite key sets, every         *)
(* compare_xunit_files(B, A) returns, its fixed count is the regression    *)
(* count of compare_xunit_files(A, B), its regression count is the fixed   *)
(* count of compare_xunit_files(A, B), and the works counts and the broken *)
(* counts are the same in both directions.                                 *)
(***************************************************************************)
C13_SwapExchangesRegressionAndFixed ==
    (FilesCompared /\ ~KeySetsDiffer) =>
      /\ Returned
      /\ \A c \in compare_xunit_files(test_suites_b, test_suites_a) :
           /\ c.kind = "return"
           /\ c.output.total_counts["fixed"] = Report.total_counts["regression"]
           /\ c.output.total_counts["regression"] = Report.total_counts["fixed"]
           /\ c.output.total_counts["works"] = Report.total_counts["works"]
           /\ c.output.total_counts["broken"] = Report.total_counts["broken"]

\* two suites with regressions (one of them pass then error), a fixed case and
\* a broken case
C13_Witness ==
    /\ Returned
    /\ Len(test_suites_a) = 2
    /\ Report.total_counts["regression"] = 2
    /\ Report.total_counts["fixed"] = 1
    /\ Report.total_counts["broken"] = 1
    /\ \E i \in DOMAIN Report.entries["regression"] :
         Report.entries["regression"][i].result_b = "error"


\* the names of the test cases of the suite with the given key in a document
NamesIn(test_suites, key) ==
    LET tcs == first_suite(test_suites, key).test_cases
    IN {tcs[i].name : i \in DOMAIN tcs}

\* the result of the test case named n of that suite, MISSING without one
ResultOf(test_suites, key, n) ==
    LET tcs == first_suite(test_suites, key).test_cases
    IN IF n \in NamesIn(test_suites, key)
       THEN (CHOOSE tc \in {tcs[i] : i \in DOMAIN tcs} : tc.name = n).result
       ELSE MISSING

\* the compared cases: a matched suite and a name of the union of both sides
ComparedCases ==
    {<<k, n>> \in SuiteKeys \X TestNames :
        /\ k \in suite_keys(test_suites_a)
        /\ n \in NamesIn(test_suites_a, k) \cup NamesIn(test_suites_b, k)}

\* the entry a compared case is to be listed with
DetailOf(k, n) ==
    LET in_a == n \in NamesIn(test_suites_a, k)
        in_b == n \in NamesIn(test_suites_b, k)
    IN [name |-> n, arch |-> k[2],
        ref |-> IF in_a THEN Ref("A", n) ELSE Ref("B", n),
        result_a |-> ResultOf(test_suites_a, k, n),
        result_b |-> ResultOf(test_suites_b, k, n),
        log_url_a |-> IF in_a THEN Log("A", n) ELSE "",
        log_url_b |-> IF in_b THEN Log("B", n) ELSE ""]

\* the positions of a list of the report that are about the compared case
PositionsOf(c, k, n) ==
    {i \in DOMAIN Report.entries[c] :
        Report.entries[c][i].name = n /\ Report.entries[c][i].arch = k[2]}

SumOfCounts ==
    Report.total_counts["works"] + Report.total_counts["regression"]
      + Report.total_counts["fixed"] + Report.total_counts["broken"]
      + Report.total_counts["difference"]

(***************************************************************************)
(* C14: in a returned comparison the five counts sum to the number of      *)
(* compared cases (matched suite, name of the union of both sides); each   *)
(* list is as long as its count; a compared case whose category is not     *)
(* works is at exactly one position of the list of its category and in no  *)
(* other list, with its name, arch, reference, result_a and result_b (a    *)
(* side without the case has result missing), the log location of A as     *)
(* log_url_a and that of B as log_url_b; a works case is in no list.       *)
(***************************************************************************)
C14_EachCaseClassifiedOnce ==
    Returned =>
      /\ SumOfCounts = Cardinality(ComparedCases)
      /\ \A c \in ComparisonResults \ {"works"} :
           Len(Report.entries[c]) = Report.total_counts[c]
      /\ Report.total_counts["works"] =
           Cardinality({kn \in ComparedCases : DetailOf(kn[1], kn[2]).result_a = "pass"
                                               /\ DetailOf(kn[1], kn[2]).result_b = "pass"})
      /\ \A kn \in ComparedCases :
           LET d == DetailOf(kn[1], kn[2])
               cat == Category(d.result_a, d.result_b)
           IN \A c \in ComparisonResults \ {"works"} :
                IF c = cat
                THEN /\ Cardinality(PositionsOf(c, kn[1], kn[2])) = 1
                     /\ \A i \in PositionsOf(c, kn[1], kn[2]) : Report.entries[c][i] = d
                ELSE PositionsOf(c, kn[1], kn[2]) = {}

\* t1 fails in A and passes in B in the only suite, no other case: it is the
\* one entry of fixed with both log locations, and the fixed count is 1
C14_Witness ==
    /\ Returned
    /\ Len(test_suites_a) = 1
    /\ ComparedCases = {<<SuiteKeyOrder[2], "t1">>}
    /\ Report.total_counts["fixed"] = 1
    /\ Report.entries["fixed"] =
         <<[name |-> "t1", arch |-> "x86_64", ref |-> Ref("A", "t1"),
            result_a |-> "fail", result_b |-> "pass",
            log_url_a |-> Log("A", "t1"), log_url_b |-> Log("B", "t1")]>>


\* the states of the reproduction runs the handler looked at
RunStatesRead == {rd[2] : rd \in ReadsOf(Out, "testing_farm_get_request")}

StatesOfRuns(states) == {states[i] : i \in DOMAIN states}

TerminalStates == {"complete", "error", "canceled"}

NonTerminalStates == {"new", "queued", "running", "cancel-requested"}

\* the message of the comment the run rewrites, if it rewrites one
CommentMessages == {c[3] : c \in CallsOf(Out, "update_issue_comment")}

(***************************************************************************)
(* C15: for every assignment of states to the reproduction runs a handler  *)
(* run looks at, settled is true iff every run is complete, error or       *)
(* canceled, and complete is true iff every run is complete; so complete   *)
(* implies settled and complete is false when a run is new, queued,        *)
(* running or cancel-requested.  The run waits iff the runs are not        *)
(* settled, and a comment it rewrites says Reproduced iff they are         *)
(* complete.                                                               *)
(***************************************************************************)
C15_SettledAndComplete ==
    IssueRun =>
      \A states \in RunStatesRead :
        /\ settled(states) <=> StatesOfRuns(states) \subseteq TerminalStates
        /\ complete(states) <=> StatesOfRuns(states) \subseteq {"complete"}
        /\ complete(states) => settled(states)
        /\ StatesOfRuns(states) \cap NonTerminalStates # {} => ~complete(states)
        /\ (Out.kind = "result" /\ Out.status = "Waiting for baseline tests to complete")
             <=> ~(StatesOfRuns(states) \subseteq TerminalStates)
        /\ \A m \in CommentMessages :
             m = "Reproduced" <=> StatesOfRuns(states) \subseteq {"complete"}

\* two runs, one complete and one in error: settled, not complete, and the
\* comment is rewritten as a failure to reproduce
C15_Witness ==
    /\ IssueRun
    /\ \E states \in RunStatesRead :
         /\ Len(states) = 2
         /\ StatesOfRuns(states) = {"complete", "error"}
    /\ CommentMessages = {"Failed to reproduce"}


\* a step that is one run of a handler
HandlerStep == last'.op \in {"do_process_issue", "do_process_erratum"}

(***************************************************************************)
(* C16: with dry-run on, a run of IssueHandler or ErratumHandler leaves    *)
(* the trackers unchanged: the issues (labels, status, recorded baseline   *)
(* tests), the advisories (status, ownership) and the tracking issues.     *)
(***************************************************************************)
C16_Original ==
    [][(HandlerStep /\ dry_run) => UNCHANGED <<issues, errata, tracking>>]_vars

\* with dry-run on, a run changes nothing but the ownership of the advisory
C16_DryRunKeepsAllButOwnership ==
    [][(HandlerStep /\ dry_run) =>
          /\ UNCHANGED <<issues, tracking>>
          /\ \A e \in ErratumIds :
               /\ errata'[e].status = errata[e].status
               /\ errata'[e].jira_issues = errata[e].jira_issues]_vars

\* a dry run on an advisory that was not owned by the automation identity and
\* is owned by it after the run
C16_Witness ==
    /\ ErratumRun
    /\ dry_run
    /\ ~Owned(Self.erratum)
    /\ Owned(errata[Self.erratum.id])


\* a step of the repeating loop in which the entity fetch or the handler raised
FailedDispatch ==
    pc = "handling" /\ last'.op = "do_process" /\ last'.out[1].kind = "raise"

Returns == pc = "idle" /\ pc' = "handling"

(***************************************************************************)
(* C18: when wait_first_ready_work_item returns an item, the item had an   *)
(* entry whose ready-time was not in the future and was the earliest of    *)
(* the queue; after the call that item is hidden (it has no entry that is  *)
(* ready now), and every entry of every other item is as it was.           *)
(***************************************************************************)
C18_ReturnsEarliestReady ==
    [][Returns =>
         /\ \E e \in queue :
              /\ cur' = <<e.item>>
              /\ e.ready <= now
              /\ \A f \in queue : e.ready <= f.ready
         /\ \A f \in EntriesOf(queue', cur'[1]) : f.ready > now
         /\ {f \in queue' : f.item # cur'[1]} = {f \in queue : f.item # cur'[1]}]_vars

\* an item has been returned and hidden for one wait delay while another
\* item, ready as well, is still in the queue
C18_Witness ==
    /\ pc = "handling"
    /\ now = 1
    /\ EntriesOf(queue, cur[1]) = {Entry(cur[1], now + WAIT_DELAY)}
    /\ \E f \in queue : f.item # cur[1] /\ f.ready = now


\* the statuses the issue workflow has a case for
KnownStatuses == {"New", "Planning", "In Progress", "Integration", "Release Pending", "Closed"}

\* the run was on an entity that already carried the needs-attention marker
\* and did not ignore it
AlreadyFlagged ==
    /\ ~Self.ignore_needs_attention
    /\ \/ IssueRun /\ NEEDS_ATTENTION \in Self.issue.labels
       \/ ErratumRun /\ erratum_needs_attention(Self.track)

UnrecognizedStatus == IssueRun /\ Self.issue.status \notin KnownStatuses

NotOneComponent == IssueRun /\ Self.issue.components # 1

MixedOwnership == ErratumRun /\ ~jotnar_owns_all_issues(Self.related)

\* rules block the transition and none of the blocking rules is a known one
UnrecognizedBlockingRule ==
    /\ ErratumRun
    /\ \E rd \in ReadsOf(Out, "get_erratum_transition_rules") :
         /\ rd[2].rules["Other"] # "OK"
         /\ \A n \in RuleNames \ {"Other"} : rd[2].rules[n] = "OK"

\* the issue is labelled as reproducing and its pairing table cannot be parsed
MalformedPairingTable ==
    /\ IssueRun
    /\ REPRODUCING \in Self.issue.labels
    /\ <<"BaselineTests.load_from_issue", "None">> \in ReadsOf(Out, "BaselineTests.load_from_issue")

\* the run ended by asking for the needs-attention marker, never to be
\* rescheduled, and asked for nothing else
Escalated ==
    /\ Out.kind = "result"
    /\ Out.reschedule_in < 0
    /\ Escalation(Out)
    /\ ~HasCall(Out.calls, {"change_issue_status", "erratum_change_state",
                            "erratum_push_to_stage", "erratum_refresh_security_alerts",
                            "erratum_change_ownership",
                            "testing_farm_reproduce_request_with_build"})

(***************************************************************************)
(* C19: a run on an entity that is not already flagged and shows a policy  *)
(* violation (unrecognized issue status, not exactly one component,        *)
(* advisory with a linked issue not owned by the automation, transition    *)
(* blocked by unrecognized rules only, unparsable pairing table of a       *)
(* reproducing issue) ends as an escalation: it returns reschedule_in < 0, *)
(* asks for the needs-attention marker and for no other mutation.          *)
(***************************************************************************)
C19_Original ==
    ((IssueRun \/ ErratumRun) /\ ~AlreadyFlagged) =>
      ((UnrecognizedStatus \/ NotOneComponent \/ MixedOwnership
          \/ UnrecognizedBlockingRule \/ MalformedPairingTable) => Escalated)

\* the same for the violations other than the unrecognized status and the
\* mixed ownership of an advisory the automation already owns
C19_EscalationsThatHold ==
    ((IssueRun \/ ErratumRun) /\ ~AlreadyFlagged) =>
      /\ NotOneComponent => Escalated
      /\ (MixedOwnership /\ ~Owned(Self.erratum)) => Escalated
      /\ UnrecognizedBlockingRule => Escalated
      /\ (MalformedPairingTable /\ ~UnrecognizedStatus) => Escalated

\* an issue of unrecognized status, with one component and its advisory
\* link, whose run raised: no result, no marker asked for
C19_Witness ==
    /\ IssueRun
    /\ ~AlreadyFlagged
    /\ UnrecognizedStatus
    /\ ~NotOneComponent
    /\ Out.kind = "raise"
    /\ ~Escalation(Out)


\* the run raised the error of the status match
RaisedUnknownStatus == Out.kind = "raise" /\ Out.status = "Unknown issue status"

\* the snapshot gets as far as the status match of run_after_errata_created
ReachesStatusMatch(self) ==
    /\ PostAdvisoryPhase(self)
    /\ self.issue.fixed_in_build
    /\ self.issue.preliminary_testing = "Pass"
    /\ self.issue.test_coverage \notin {"None", "empty"}

(***************************************************************************)
(* C20 as stated: a run on a snapshot whose status is outside New,         *)
(* Planning, In Progress, Integration, Release Pending, Closed raises.     *)
(***************************************************************************)
C20_Original ==
    (IssueRun /\ Self.issue.status \notin KnownStatuses) => Out.kind = "raise"

(***************************************************************************)
(* C20, amended: a run raises the unknown-status error iff the status is   *)
(* outside the known set and the snapshot reaches the status match (not    *)
(* flagged or flags ignored, one component, advisory link, fixed_in_build, *)
(* Preliminary Testing Pass, Test Coverage set); the only mutation it may  *)
(* have asked for before raising is the merged label.  A snapshot of       *)
(* unknown status that does not reach the match gets a WorkflowResult.     *)
(***************************************************************************)
C20_UnknownStatusRaisesAtTheMatch ==
    IssueRun =>
      /\ RaisedUnknownStatus <=>
           (Self.issue.status \notin KnownStatuses /\ ReachesStatusMatch(Self))
      /\ RaisedUnknownStatus =>
           \A j \in DOMAIN Out.calls :
              Out.calls[j][1] = "add_issue_label" /\ Out.calls[j][3] = MERGED
      /\ (Self.issue.status \notin KnownStatuses /\ ~ReachesStatusMatch(Self)) =>
           Out.kind = "result"

\* an issue in status Done that reached the match: the merged label was asked
\* for, then the run raised
C20_Witness ==
    /\ IssueRun
    /\ Self.issue.status = "Done"
    /\ RaisedUnknownStatus
    /\ HasCall(Out.calls, {"add_issue_label"})


\* the advisory or one of its linked issues is not owned by the automation
SomethingNotOwned == ~Owned(Self.erratum) \/ ~jotnar_owns_all_issues(Self.related)

\* the run asked to advance the advisory or to remedy a blocking rule
AdvancesOrRemedies(o) ==
    HasCall(o.calls, {"erratum_change_state", "erratum_push_to_stage",
                      "erratum_refresh_security_alerts"})

ClaimsOwnership(o) ==
    /\ o.kind = "result"
    /\ o.reschedule_in = 0
    /\ \A j \in DOMAIN o.calls : o.calls[j][1] = "erratum_change_ownership"
    /\ HasCall(o.calls, {"erratum_change_ownership"})

(***************************************************************************)
(* C21: a run on an advisory that is not already flagged, where the        *)
(* advisory or some linked issue is not owned by the automation identity,  *)
(* claims ownership of the advisory and reschedules at 0 if every linked   *)
(* issue is owned by the automation, and escalates otherwise; it asks for  *)
(* no status change, no stage push and no security-alert refresh.          *)
(***************************************************************************)
C21_Original ==
    (ErratumRun /\ ~AlreadyFlagged /\ SomethingNotOwned) =>
      /\ ~AdvancesOrRemedies(Out)
      /\ IF jotnar_owns_all_issues(Self.related) THEN ClaimsOwnership(Out)
         ELSE Escalated

\* the same where the advisory itself is not owned by the automation
C21_UnownedAdvisoryIsClaimedOrEscalated ==
    (ErratumRun /\ ~AlreadyFlagged /\ ~Owned(Self.erratum)) =>
      /\ ~AdvancesOrRemedies(Out)
      /\ IF jotnar_owns_all_issues(Self.related) THEN ClaimsOwnership(Out)
         ELSE Escalated

\* an advisory owned by the automation with a linked issue that is not: the
\* run asked for a status change
C21_Witness ==
    /\ ErratumRun
    /\ ~AlreadyFlagged
    /\ Owned(Self.erratum)
    /\ ~jotnar_owns_all_issues(Self.related)
    /\ HasCall(Out.calls, {"erratum_change_state"})


\* a call of the run repeats a mutation whose effect the snapshot already
\* shows: a label the issue carries (added again, with its comment), the
\* marker of a tracking issue that is labelled, the ownership of an advisory
\* the automation owns
RepeatsLabel ==
    /\ IssueRun
    /\ \E c \in CallsOf(Out, "add_issue_label") :
         c[2] = Self.issue.key /\ c[3] \in Self.issue.labels

RepeatsMarker ==
    /\ ErratumRun
    /\ Self.track = "open_labelled"
    /\ \E c \in CallsOf(Out, "add_issue_label") \cup CallsOf(Out, "create_issue") :
         c[2] = TrackKey(Self.erratum.id)

RepeatsOwnershipClaim ==
    /\ ErratumRun
    /\ Owned(Self.erratum)
    /\ HasCall(Out.calls, {"erratum_change_ownership"})

(***************************************************************************)
(* C22: no run of a handler repeats a mutation whose effect is already     *)
(* present on the entity: it adds no label the issue already carries (and  *)
(* so posts no second copy of the comment that goes with it), does not     *)
(* mark a tracking issue that is already marked, and does not claim an     *)
(* advisory the automation already owns.                                   *)
(***************************************************************************)
C22_Original ==
    (IssueRun \/ ErratumRun) =>
      ~(RepeatsLabel \/ RepeatsMarker \/ RepeatsOwnershipClaim)

\* the same for runs that do not ignore the needs-attention marker
C22_NoRepeatUnlessMarkerIgnored ==
    ((IssueRun \/ ErratumRun) /\ ~Self.ignore_needs_attention) =>
      ~(RepeatsLabel \/ RepeatsMarker \/ RepeatsOwnershipClaim)

\* a flagged issue with two components, run with the marker ignored: the
\* needs-attention label and its comment are added again
C22_Witness ==
    /\ IssueRun
    /\ Self.ignore_needs_attention
    /\ NEEDS_ATTENTION \in Self.issue.labels
    /\ Self.issue.components # 1
    /\ \E c \in CallsOf(Out, "add_issue_label") : c[3] = NEEDS_ATTENTION


\* the snapshot has no advisory link and none of the ownership labels
NotThisSystemsIssue(issue) ==
    /\ issue.errata_link = <<>>
    /\ issue.labels \cap {BACKPORTED, REBASED, MERGED} = {}

(***************************************************************************)
(* C23: a run on a snapshot with no advisory link and none of the labels   *)
(* backported, rebased, merged returns a WorkflowResult with               *)
(* reschedule_in < 0, whatever the status, the component count, the other  *)
(* labels and fields and the switches.                                     *)
(***************************************************************************)
C23_UnownedUnlinkedIsRemoved ==
    (IssueRun /\ NotThisSystemsIssue(Self.issue)) =>
      /\ Out.kind = "result"
      /\ Out.reschedule_in < 0

\* such a snapshot of a status the workflow has no case for, with one
\* component and not flagged, removed for lacking the labels
C23_Witness ==
    /\ IssueRun
    /\ NotThisSystemsIssue(Self.issue)
    /\ Self.issue.status = "Refinement"
    /\ Self.issue.components = 1
    /\ NEEDS_ATTENTION \notin Self.issue.labels
    /\ Out.status = "Issue without target labels"
    /\ Out.reschedule_in < 0
    /\ Out.calls = <<>>


ItemsOf(q) == {e.item : e \in q}

\* the items that have an entry before the step and none after it
Gone == ItemsOf(queue) \ ItemsOf(queue')

\* a step of the Collector
CollectorStep == cpc' # cpc

\* a step of the clear-queue command
ClearQueueStep == queue' = {} /\ pc' = pc /\ cpc' = cpc

(***************************************************************************)
(* C24: no step of the Collector takes an item out of the queue, whether   *)
(* or not the item's entity is still among the query results; an item      *)
(* leaves the queue only in a dispatch of that item whose handler returned *)
(* reschedule_in < 0 (remove_work_items), or when the queue is cleared     *)
(* (remove_all_work_items).                                                *)
(***************************************************************************)
C24_OnlyHandlerOrClearRemoves ==
    [][/\ CollectorStep => Gone = {}
       /\ Gone # {} =>
            \/ ClearQueueStep
            \/ /\ Dispatch
               /\ Gone = {cur[1]}
               /\ last'.out[1].kind = "result"
               /\ last'.out[1].reschedule_in < 0]_vars

\* the Collector is about to schedule what it found new, and the queue holds
\* an item whose entity is no longer among the query results
C24_Witness ==
    /\ cpc = "diffed"
    /\ \E e \in queue : e.item \notin CollectedWorkItems


\* what the pairings of the run offered to create_attachments
ArtifactsRead == {rd[2] : rd \in ReadsOf(Out, "create_attachments")}

\* the reproduction runs the handler looked at were all settled
RunsSettled ==
    /\ RunStatesRead # {}
    /\ \A states \in RunStatesRead : StatesOfRuns(states) \subseteq TerminalStates

\* the run finished the reproduction step: comparison reports attached, one
\* per pairing, then the marker label removed, then the comment replaced by
\* the finished table, and a reschedule at 0; label_merge_if_needed may have
\* added the merged label before the step
StepCalls == SelectSeq(Out.calls, LAMBDA c : c[1] # "add_issue_label")

FinishedReproduction ==
    /\ Out.kind = "result"
    /\ Out.reschedule_in = 0
    /\ Len(StepCalls) = 3
    /\ StepCalls[1][1] = "add_issue_attachments"
    /\ \A states \in RunStatesRead : Len(StepCalls[1][3]) = Len(states)
    /\ StepCalls[2][1] = "remove_issue_label" /\ StepCalls[2][3] = REPRODUCING
    /\ StepCalls[3][1] = "update_issue_comment"
    /\ StepCalls[3][3] \in {"Reproduced", "Failed to reproduce"}

\* a pairing without the result artifact of a run is attached as not
\* generated, with the reason naming the run
MissingArtifactsRecorded ==
    \A artifacts \in ArtifactsRead : \A i \in DOMAIN artifacts :
       LET attached == StepCalls[1][3][i] IN
       /\ attached.generated <=> artifacts[i] = "comparable"
       /\ artifacts[i] = "none" => attached.reason = "XUnit results missing for runs A and B"
       /\ artifacts[i] = "only_b" => attached.reason = "XUnit results missing for run A"
       /\ artifacts[i] = "only_a" => attached.reason = "XUnit results missing for run B"

(***************************************************************************)
(* C25: a run on an issue carrying the reproducing-tests label whose       *)
(* reproduction runs are all settled finishes the reproduction step in     *)
(* that run, whatever the outcomes of the runs and whatever artifacts the  *)
(* pairings have; a pairing lacking an artifact is attached as not         *)
(* generated with its reason.                                              *)
(***************************************************************************)
C25_Original ==
    (IssueRun /\ RunsSettled) => (FinishedReproduction /\ MissingArtifactsRecorded)

\* the same unless compare_xunit_files raises for a pairing with both
\* artifacts; then the run raises and asks for no mutation
C25_FinishesUnlessComparisonRaises ==
    (IssueRun /\ RunsSettled) =>
      \A artifacts \in ArtifactsRead :
        IF \E i \in DOMAIN artifacts : artifacts[i] = "incomparable"
        THEN Out.kind = "raise" /\ StepCalls = <<>>
        ELSE FinishedReproduction /\ MissingArtifactsRecorded

\* two settled runs, the first pairing without artifacts, the documents of
\* the second not comparable: the run raised, the label stays
C25_Witness ==
    /\ IssueRun
    /\ RunsSettled
    /\ ArtifactsRead = {<<"none", "incomparable">>}
    /\ Out.kind = "raise"
    /\ REPRODUCING \in issues[Self.issue.key].labels


\* the issue is at Integration, carries the reproducing-tests label and its
\* comment records reproduction runs
MarkerAtIntegration ==
    /\ IssueRun
    /\ Self.issue.status = "Integration"
    /\ REPRODUCING \in Self.issue.labels
    /\ Self.issue.baseline # <<>>

\* a reproduction run is not terminal.  The states of the runs belong to
\* Testing Farm; a run of the handler that does not fetch them may have
\* happened with any states, non-terminal ones included.
SomeRunNonTerminal ==
    \A states \in RunStatesRead : StatesOfRuns(states) \cap NonTerminalStates # {}

\* the run waits and asks for no change of the label, the comment, the
\* attachments or the status, and consults neither analyze_issue nor
\* create_attachments (compare_xunit_files)
WaitsUntouched ==
    /\ Out.kind = "result"
    /\ Out.reschedule_in > 0
    /\ ~HasCall(Out.calls, {"remove_issue_label", "update_issue_comment",
                            "add_issue_attachments", "change_issue_status"})
    /\ ReadsOf(Out, "analyze_issue") = {}
    /\ ReadsOf(Out, "create_attachments") = {}
    /\ REPRODUCING \in issues[Self.issue.key].labels
    /\ issues[Self.issue.key].status = "Integration"

\* a run that removes the reproducing-tests label fetched the run states and
\* found every run terminal
RemovesMarkerOnlyWhenSettled ==
    IssueRun /\ (\E c \in CallsOf(Out, "remove_issue_label") : c[3] = REPRODUCING)
      => RunsSettled

BlockedOn(names, clear) ==
    /\ ErratumRun
    /\ \E rd \in ReadsOf(Out, "get_erratum_transition_rules") :
         /\ rd[2].to_status = rd[3]
         /\ \A n \in names : rd[2].rules[n] # "OK"
         /\ \A n \in clear : rd[2].rules[n] = "OK"

\* the details of the latest stage push the run fetched
PushDetailsRead == {rd[2] : rd \in ReadsOf(Out, "erratum_get_latest_stage_push_details")}

InFlight == {<<"QUEUED">>, <<"READY">>, <<"RUNNING">>, <<"WAITING_ON_PUB">>,
             <<"POST_PUSH_PROCESSING">>}

PushesToStage == Cardinality({j \in DOMAIN Out.calls :
                                Out.calls[j][1] = "erratum_push_to_stage"})

Waits == Out.kind = "result" /\ Out.reschedule_in > 0

(***************************************************************************)
(* C27: with Stagepush blocking the run fetches the latest stage push;     *)
(* without one or with a COMPLETE one it triggers one push and waits, with *)
(* a FAILED one it escalates without a push, with one in flight it waits   *)
(* without a push.  No run triggers a push unless Stagepush blocks and     *)
(* the latest push is absent or COMPLETE.                                  *)
(***************************************************************************)
C27_StagepushOnlyWhenNoneOrComplete ==
    /\ BlockedOn({"Stagepush"}, {}) =>
         /\ Cardinality(PushDetailsRead) = 1
         /\ \A pd \in PushDetailsRead :
              /\ pd.status \in {<<>>, <<"COMPLETE">>} => (PushesToStage = 1 /\ Waits)
              /\ pd.status = <<"FAILED">> => (PushesToStage = 0 /\ Escalated)
              /\ pd.status \in InFlight => (PushesToStage = 0 /\ Waits)
    /\ (ErratumRun /\ PushesToStage > 0) =>
         /\ BlockedOn({"Stagepush"}, {})
         /\ \A pd \in PushDetailsRead : pd.status \in {<<>>, <<"COMPLETE">>}

\* Stagepush blocks and the latest push is running: the run waits, no push
C27_Witness ==
    /\ BlockedOn({"Stagepush"}, {})
    /\ \E pd \in PushDetailsRead : pd.status = <<"RUNNING">>
    /\ PushesToStage = 0
    /\ Waits


\* the time since the completion of the push, when its log tells
Elapsed(pd) == now - pd.updated_at[1]

\* the latest stage push is COMPLETE and its log tells when
CompletionKnown(pd) == pd.status = <<"COMPLETE">> /\ pd.updated_at # <<>>

(***************************************************************************)
(* C28 as stated: with Cat blocking and Stagepush not, the run waits when  *)
(* the latest stage push is not COMPLETE and when it is COMPLETE with no   *)
(* more than POST_PUSH_TESTING_TIMEOUT since its completion, and escalates *)
(* only when more than POST_PUSH_TESTING_TIMEOUT has passed since the      *)
(* completion.                                                             *)
(***************************************************************************)
C28_Original ==
    BlockedOn({"Cat"}, {"Stagepush"}) =>
      /\ Out.kind = "result"
      /\ \A pd \in PushDetailsRead :
           /\ pd.status # <<"COMPLETE">> => Waits
           /\ (CompletionKnown(pd) /\ Elapsed(pd) <= POST_PUSH_TESTING_TIMEOUT) => Waits
           /\ Out.reschedule_in < 0
                => (CompletionKnown(pd) /\ Elapsed(pd) > POST_PUSH_TESTING_TIMEOUT)

(***************************************************************************)
(* C28: with Cat blocking and Stagepush not, the run fetches the latest    *)
(* stage push and triggers nothing; it waits when the push is not COMPLETE *)
(* and when it is COMPLETE with no more than POST_PUSH_TESTING_TIMEOUT     *)
(* since the last timestamp of its log; it escalates exactly when the push *)
(* is COMPLETE and either that time is more than POST_PUSH_TESTING_TIMEOUT *)
(* or the log has no timestamp.                                            *)
(***************************************************************************)
C28_CatWaitsUntilTimeoutOrUnknownTime ==
    BlockedOn({"Cat"}, {"Stagepush"}) =>
      /\ Out.kind = "result"
      /\ Cardinality(PushDetailsRead) = 1
      /\ PushesToStage = 0
      /\ \A pd \in PushDetailsRead :
           /\ pd.status # <<"COMPLETE">> => Waits
           /\ (CompletionKnown(pd) /\ Elapsed(pd) <= POST_PUSH_TESTING_TIMEOUT) => Waits
           /\ Escalated <=>
                /\ pd.status = <<"COMPLETE">>
                /\ pd.updated_at = <<>> \/ Elapsed(pd) > POST_PUSH_TESTING_TIMEOUT
           /\ Escalated \/ Waits

\* the push completed exactly POST_PUSH_TESTING_TIMEOUT ago: the run waits
C28_Witness ==
    /\ BlockedOn({"Cat"}, {"Stagepush"})
    /\ \E pd \in PushDetailsRead :
         CompletionKnown(pd) /\ Elapsed(pd) = POST_PUSH_TESTING_TIMEOUT
    /\ Waits


\* the status changes the run asked for
StateChanges == {j \in DOMAIN Out.calls : Out.calls[j][1] = "erratum_change_state"}

(***************************************************************************)
(* C29: a run of the erratum handler that asks for a status change asks    *)
(* for exactly one, after fetching a rule set whose rules are all OK and   *)
(* whose to_status is the requested target, which is the status asked for; *)
(* the change is to QE from NEW_FILES, returning reschedule_in = 0, or to  *)
(* REL_PREP from QE, returning reschedule_in < 0; and the advisory's       *)
(* status after the run differs from the one before only by such a change. *)
(***************************************************************************)
C29_StatusChangeOnlyWhenAllOk ==
    ErratumRun =>
      /\ StateChanges # {} =>
           /\ Cardinality(StateChanges) = 1
           /\ Out.kind = "result"
           /\ \A j \in StateChanges :
                /\ \E rd \in ReadsOf(Out, "get_erratum_transition_rules") :
                     /\ \A n \in RuleNames : rd[2].rules[n] = "OK"
                     /\ rd[2].to_status = rd[3]
                     /\ Out.calls[j][3] = rd[3]
                /\ \/ /\ Self.erratum.status = "NEW_FILES"
                      /\ Out.calls[j][3] = "QE"
                      /\ Out.reschedule_in = 0
                   \/ /\ Self.erratum.status = "QE"
                      /\ Out.calls[j][3] = "REL_PREP"
                      /\ Out.reschedule_in < 0
      /\ errata[Self.erratum.id].status # Self.erratum.status =>
           \E j \in StateChanges : /\ ~Out.calls[j][4]
                                   /\ errata[Self.erratum.id].status = Out.calls[j][3]

\* a QE advisory with every rule OK was moved to REL_PREP and is not rescheduled
C29_Witness ==
    /\ ErratumRun
    /\ Self.erratum.status = "QE"
    /\ errata[Self.erratum.id].status = "REL_PREP"
    /\ StateChanges # {}
    /\ Out.reschedule_in < 0


\* the build maps the run fetched before a move to REL_PREP
BuildMapsRead == {rd[2] : rd \in ReadsOf(Out, "get_erratum_build_map")}

Unchecked(build_map, kind) == {i \in DOMAIN build_map : build_map[i] = kind}

MovesToRelPrep ==
    /\ Out.kind = "result"
    /\ \E j \in StateChanges : Out.calls[j][3] = "REL_PREP"

(***************************************************************************)
(* C30 as stated: on the way to REL_PREP with every rule OK, a package     *)
(* whose file list differs from its previous release makes the run         *)
(* escalate without a status change; otherwise the advisory is moved to    *)
(* REL_PREP, also when a package has no previous release, which is noted   *)
(* in a comment.                                                           *)
(***************************************************************************)
C30_Original ==
    ErratumRun =>
      \A build_map \in BuildMapsRead :
        IF Unchecked(build_map, "mismatch") # {}
        THEN Escalated /\ StateChanges = {}
        ELSE /\ MovesToRelPrep
             /\ Unchecked(build_map, "no_previous") # {}
                  => HasCall(Out.calls, {"erratum_add_comment"})

\* what the code does: the advisory is moved only when every package already
\* carries the checked comment; otherwise the run raises and asks for nothing
C30_UncheckedPackageRaises ==
    ErratumRun =>
      \A build_map \in BuildMapsRead :
        IF \A i \in DOMAIN build_map : build_map[i] = "checked"
        THEN MovesToRelPrep
        ELSE /\ Out.kind = "raise"
             /\ Out.calls = <<>>
             /\ errata[Self.erratum.id].status = Self.erratum.status

\* one package checked earlier, one with no previous release: the run raised
\* and the advisory stays in QE
C30_Witness ==
    /\ ErratumRun
    /\ BuildMapsRead = {<<"checked", "no_previous">>}
    /\ Out.kind = "raise"
    /\ errata[Self.erratum.id].status = "QE"


\* the rule sets the run fetched
RuleSetsRead == {rd[2] : rd \in ReadsOf(Out, "get_erratum_transition_rules")}

\* the rules the escalation message for unknown blocking rules lists
RulesListed == {rd[2] : rd \in ReadsOf(Out, "blocking_rules_details")}

OnlyOtherBlocks == BlockedOn({"Other"}, {"Stagepush", "Cat", "Securityalert"})

(***************************************************************************)
(* C31 as stated: when the fetched rule set is not all OK and none of      *)
(* Stagepush, Cat, Securityalert is among the rules that are not OK, the   *)
(* run escalates and its message lists every rule that is not OK.          *)
(***************************************************************************)
C31_Original ==
    OnlyOtherBlocks =>
      /\ Escalated
      /\ \A rule_set \in RuleSetsRead :
           RulesListed = {{n \in RuleNames : rule_set.rules[n] # "OK"}}

\* what the code does: the run escalates and the message lists the rules
\* whose outcome is BLOCK, leaving out the rules whose outcome is UNKNOWN
C31_ListsOnlyBlockOutcomes ==
    OnlyOtherBlocks =>
      /\ Escalated
      /\ \A rule_set \in RuleSetsRead :
           RulesListed = {{n \in RuleNames : rule_set.rules[n] = "BLOCK"}}

\* the only rule that is not OK has outcome UNKNOWN: the run escalated with a
\* message that lists no rule
C31_Witness ==
    /\ OnlyOtherBlocks
    /\ \E rule_set \in RuleSetsRead : rule_set.rules["Other"] = "UNKNOWN"
    /\ Escalated
    /\ RulesListed = {{}}


\* the step in which the Collector schedules what it found new
CollectorSchedules == cpc = "diffed" /\ cpc' = "idle"

(***************************************************************************)
(* C32: with the Collector and the dispatch loop interleaved on the queue, *)
(* what the Collector found new stays unqueued until it schedules it; its  *)
(* scheduling step adds one entry, ready now, for each of these items and  *)
(* leaves every entry of the queue as it is, the ready-times set by        *)
(* handlers included; and an item a handler removes or reschedules between *)
(* the Collector's reading of the queue and its scheduling is not among    *)
(* the items the Collector schedules.                                      *)
(***************************************************************************)
C32_CollectorAddsOnlyUnqueued ==
    /\ [](cpc = "diffed" => collected \cap ItemsOf(queue) = {})
    /\ [][CollectorSchedules =>
            /\ queue \subseteq queue'
            /\ queue' \ queue = {Entry(i, now) : i \in collected}]_vars
    /\ [][(Dispatch /\ cpc = "diffed") => cur[1] \notin collected]_vars

\* the Collector has read the queue while an item whose entity is among its
\* query results is being handled, hidden in the queue
C32_Witness ==
    /\ cpc = "diffed"
    /\ pc = "handling"
    /\ cur[1] \in CollectedWorkItems
    /\ cur[1] \notin collected
    /\ collected # {}


\* how many zero-delay results the entity of a work item can still get: an
\* issue before Integration is moved there and may still finish a
\* reproduction; an advisory is first claimed and then moved from NEW_FILES
IssueRank(issue) ==
    IF issue.status \in {"New", "Planning", "In Progress"} THEN 2
    ELSE IF issue.status = "Integration" /\ REPRODUCING \in issue.labels THEN 1
    ELSE 0

ErratumRank(erratum) ==
    (IF Owned(erratum) THEN 0 ELSE 2) + (IF erratum.status = "NEW_FILES" THEN 1 ELSE 0)

RankIn(item, w) ==
    IF item.item_type = PROCESS_ISSUE THEN IssueRank(w.issues[item.item_data])
    ELSE ErratumRank(w.errata[item.item_data])

\* the calls that advance the state of an entity
AdvancingCalls == {"change_issue_status", "erratum_change_state",
                   "erratum_change_ownership", "remove_issue_label"}

\* a dispatch that ended with a result of reschedule_in = 0
ZeroDelayDispatch ==
    /\ Dispatch
    /\ last'.out[1].kind = "result"
    /\ last'.out[1].reschedule_in = 0

Advances ==
    RankIn(cur[1], [issues |-> issues', errata |-> errata'])
      < RankIn(cur[1], [issues |-> issues, errata |-> errata])

(***************************************************************************)
(* C33 as stated: a handler's result is a removal (reschedule_in < 0), a   *)
(* positive wait or reschedule_in = 0; reschedule_in = 0 comes with a      *)
(* state-advancing call, and every dispatch that ends with it leaves the   *)
(* entity nearer to a positive wait or a removal, so that the zero-delay   *)
(* dispatches of an item in a row are bounded.                             *)
(***************************************************************************)
C33_Original ==
    [][ZeroDelayDispatch =>
         /\ HasCall(last'.out[1].calls, AdvancingCalls)
         /\ Advances]_vars

\* the same for the dispatches with dry-run off; with dry-run on the call is
\* asked for but the result is 0 all the same
C33_ZeroDelayAdvancesUnlessDryRun ==
    [][ZeroDelayDispatch =>
         /\ HasCall(last'.out[1].calls, AdvancingCalls)
         /\ (~dry_run \/ HasCall(last'.out[1].calls, {"erratum_change_ownership"}))
              => Advances]_vars

\* with dry-run on an advisory in NEW_FILES was dispatched with result 0 and
\* is in NEW_FILES still, its item ready at once
C33_Witness ==
    /\ dry_run
    /\ pc = "idle"
    /\ last.op = "process_once"
    /\ last.item[1].item_type = PROCESS_ERRATUM
    /\ last.out[1].kind = "result"
    /\ last.out[1].reschedule_in = 0
    /\ HasCall(last.out[1].calls, {"erratum_change_state"})
    /\ errata[last.item[1].item_data].status = "NEW_FILES"
    /\ Entry(last.item[1], now) \in queue


\* the run is that of run_before_errata_created on an issue that carries one
\* of the labels backported, rebased, merged
PreAdvisoryRun ==
    /\ IssueRun
    /\ Self.issue.errata_link = <<>>
    /\ Self.issue.components = 1
    /\ ~(NEEDS_ATTENTION \in Self.issue.labels /\ ~Self.ignore_needs_attention)
    /\ Self.issue.labels \cap {BACKPORTED, REBASED, MERGED} # {}

\* what get_latest_merged_timestamp answered
TimestampsRead == {rd[2] : rd \in ReadsOf(Out, "get_latest_merged_timestamp")}

\* a merge request was found merged, more than a day before now
MergedMoreThanADayAgo(ts) == ts # <<>> /\ now - ts[1] > ONE_DAY

(***************************************************************************)
(* C34 as stated: a run on an issue without advisory link escalates when   *)
(* a matching merge request was merged more than 24 hours before the run,  *)
(* and in every other case waits with a positive reschedule_in and does    *)
(* not escalate.                                                           *)
(***************************************************************************)
C34_Original ==
    PreAdvisoryRun =>
      IF \E ts \in TimestampsRead : MergedMoreThanADayAgo(ts)
      THEN Escalated
      ELSE Waits /\ ~Escalation(Out)

\* what the code does: without the merged label and without a merged merge
\* request it waits NO_MERGED_MR_DELAY; otherwise it waits
\* WAIT_FOR_ERRATUM_DELAY when the latest merge time is less than a day away
\* from now, in the past or in the future, and escalates when it is a day or
\* more away or when no merge time was found
C34_EscalatesAlsoWithoutMergeTime ==
    PreAdvisoryRun =>
      IF TimestampsRead = {}
      THEN /\ MERGED \notin Self.issue.labels
           /\ Waits /\ Out.reschedule_in = NO_MERGED_MR_DELAY
           /\ ~Escalation(Out)
      ELSE \A ts \in TimestampsRead :
             IF ts # <<>> /\ now - ts[1] < ONE_DAY /\ ts[1] - now < ONE_DAY
             THEN Waits /\ Out.reschedule_in = WAIT_FOR_ERRATUM_DELAY /\ ~Escalation(Out)
             ELSE Escalated

\* the issue carries the merged label, no merged merge request is found: the
\* run escalated
C34_Witness ==
    /\ PreAdvisoryRun
    /\ MERGED \in Self.issue.labels
    /\ TimestampsRead = {<<>>}
    /\ Escalated
    /\ Out.status = "A merge request was merged more than 24 hours ago but no errata was created"


\* the numbers of failing run ids BaselineTests.create was called with
CreateCalledWith == {rd[2] : rd \in ReadsOf(Out, "BaselineTests.create")}

\* the reproduction requests the run submitted
Submissions ==
    Cardinality({j \in DOMAIN Out.calls :
                   Out.calls[j][1] = "testing_farm_reproduce_request_with_build"})

\* the run asked for the reproducing-tests label, whose comment is the
\* pairing table
RecordsPairings ==
    \E c \in CallsOf(Out, "add_issue_label") : c[3] = REPRODUCING

\* the run escalated and recorded nothing
EscalatesUnrecorded ==
    /\ Out.kind = "result"
    /\ Out.reschedule_in < 0
    /\ Escalation(Out)
    /\ ~RecordsPairings
    /\ issues[Self.issue.key].baseline = Self.issue.baseline
    /\ REPRODUCING \in issues[Self.issue.key].labels <=> REPRODUCING \in Self.issue.labels

\* every submission succeeded: one per failing run id, recorded with the
\* label, and the run waits
SubmitsAndRecordsAll(nids) ==
    /\ Submissions = nids
    /\ RecordsPairings
    /\ Waits
    /\ ~Self.dry_run =>
         /\ issues[Self.issue.key].baseline = <<nids>>
         /\ REPRODUCING \in issues[Self.issue.key].labels

(***************************************************************************)
(* C35 as stated: a run that calls BaselineTests.create either submits one *)
(* reproduction request per failing run id and records the pairings with   *)
(* the reproducing-tests label, or, a submission having failed, escalates  *)
(* without the label and the pairing table, and then no request it         *)
(* submitted is left unrecorded.                                           *)
(***************************************************************************)
C35_Original ==
    IssueRun =>
      \A nids \in CreateCalledWith :
        \/ SubmitsAndRecordsAll(nids)
        \/ EscalatesUnrecorded /\ Submissions = 0

\* what the code does: when a submission fails the requests submitted
\* before it stay submitted and are recorded nowhere
C35_FailureLeavesEarlierSubmissions ==
    IssueRun =>
      \A nids \in CreateCalledWith :
        \/ SubmitsAndRecordsAll(nids)
        \/ EscalatesUnrecorded /\ Submissions < nids

\* two failing runs, the second submission failed: one request was submitted
\* for real, the run escalated and the issue carries no record of it
C35_Witness ==
    /\ IssueRun
    /\ ~Self.dry_run
    /\ CreateCalledWith = {2}
    /\ Submissions = 1
    /\ EscalatesUnrecorded
    /\ REPRODUCING \notin issues[Self.issue.key].labels


(***************************************************************************)
(* C36: the checkpoint comment round-trips.                                *)
(***************************************************************************)
Value == workflow_value[1]

Posted == workflow_value # NoBaselineTests /\ Value.comment_id # <<>>

Pairings(comparisons) ==
    [i \in DOMAIN comparisons |-> <<comparisons[i].failed, comparisons[i].baseline>>]

Loads == LoadFromIssue \/ CheckReproduction

LoadsPairingsOfValue ==
    /\ loaded'.result # <<>>
    /\ Pairings(loaded'.result[1].comparisons) = Pairings(Value.comparisons)
    /\ loaded'.result[1].comment_id = Value.comment_id[1]

LoadsBuildOfValue ==
    /\ loaded'.result # <<>>
    /\ loaded'.result[1].previous_build_nvr = Value.previous_build_nvr

\* a line of the failure comment matches the pattern of the second line of a
\* checkpoint comment
QuotesCheckpointLine(failure_comment) ==
    \E i \in DOMAIN failure_comment : match_previous_build(failure_comment[i]) # <<>>

\* C36 as stated: for every value, once the comment rendered from it is
\* posted (in progress or finished, without or with the comparison column),
\* every load from the comment history returns the previous build id of the
\* value and the pairings of the value in their order, taken from the most
\* recent checkpoint comment, which is the comment of the value.
C36_Original ==
    [][(Loads /\ Posted) => (LoadsPairingsOfValue /\ LoadsBuildOfValue)]_vars

\* C36, what holds: the pairings and the comment always come back; the
\* previous build id comes back when no line of the failure comment matches
\* the pattern of the checkpoint line.
C36_RoundTripsUnlessQuoted ==
    /\ [][(Loads /\ Posted) => LoadsPairingsOfValue]_vars
    /\ [][(Loads /\ Posted /\ ~QuotesCheckpointLine(Value.failure_comment))
             => LoadsBuildOfValue]_vars

\* C36 case: after an earlier checkpoint comment, the comment of a value with
\* MaxRuns pairings was posted, somebody else commented, the comment was
\* rewritten with the comparison column, and the value was loaded again from
\* that comment
C36_Witness ==
    /\ Posted
    /\ Value.include_attachments
    /\ Len(Value.comparisons) = MaxRuns
    /\ Len(comments) = MaxComments
    /\ comments[1] = Comment(1, render_issue_comment(EarlierValue, TRUE))
    /\ Value.comment_id = <<2>>
    /\ loaded.called
    /\ loaded.result = load_from_issue(comments)
    /\ loaded.result # <<>>
    /\ loaded.result[1].comment_id = 2
    /\ loaded.result[1].previous_build_nvr = Value.previous_build_nvr
    /\ Pairings(loaded.result[1].comparisons) = Pairings(Value.comparisons)

\* C36 divergence: the value loaded from the comment of the value carries
\* another previous build id than the value
C36_LoadsOtherBuild ==
    /\ Posted
    /\ loaded.called
    /\ loaded.result = load_from_issue(comments)
    /\ loaded.result # <<>>
    /\ loaded.result[1].comment_id = Value.comment_id[1]
    /\ loaded.result[1].previous_build_nvr # Value.previous_build_nvr


(***************************************************************************)
(* C37: an advisory in QE that was taken off the queue comes back.         *)
(***************************************************************************)
ErratumItem(e) == WorkItem(PROCESS_ERRATUM, e)

\* the advisory is in QE, every linked issue is Release Pending, the advisory
\* is not flagged, and it has no work item
ReadyForRelPrep(e) ==
    /\ errata[e].status = "QE"
    /\ \A k \in errata[e].jira_issues : issues[k].status = "Release Pending"
    /\ ~erratum_needs_attention(tracking[e])

Unqueued(e) == ErratumItem(e) \notin ItemsOf(queue) /\ cur # <<ErratumItem(e)>>

\* the dispatch loop holds the advisory's item and is about to run the handler
HandlerStarts(e) == pc = "handling" /\ cur = <<ErratumItem(e)>>

\* what run() does for the advisory is try_to_advance_erratum(REL_PREP)
AttemptsRelPrep(e) ==
    HandlerRun(ErratumItem(e)) = try_to_advance_erratum(ErratumSelf(e), "REL_PREP", NoAcc)

\* some issue the Collector's query returns links the advisory
Discoverable(e) == \E k \in CurrentIssues : issues[k].errata_link = <<e>>

\* C37 as stated: an advisory in QE without work item, all of whose linked
\* issues are Release Pending and which is not flagged, is queued again by
\* the Collector; with a Collector and a dispatch loop that keep running it is
\* then dispatched, and the run of its handler is
\* try_to_advance_erratum(REL_PREP).
C37_Original ==
    /\ \A e \in ErratumIds :
         (ReadyForRelPrep(e) /\ Unqueued(e)) ~> (ErratumItem(e) \in ItemsOf(queue))
    /\ \A e \in ErratumIds :
         (ReadyForRelPrep(e) /\ Unqueued(e)) ~> (HandlerStarts(e) /\ ReadyForRelPrep(e))

\* C37, what holds: the same for an advisory that an issue returned by the
\* Collector's query links (no needs-attention label on it); the item comes
\* back by the Collector's scheduling and by nothing else, and the run of the
\* handler on it is try_to_advance_erratum(REL_PREP).
C37_RequeuedWhenDiscoverable ==
    /\ \A e \in ErratumIds :
         (ReadyForRelPrep(e) /\ Unqueued(e) /\ Discoverable(e))
            ~> (ErratumItem(e) \in ItemsOf(queue))
    /\ [][\A e \in ErratumIds :
            (ReadyForRelPrep(e) /\ Unqueued(e) /\ ErratumItem(e) \in ItemsOf(queue'))
               => CollectorSchedules]_vars
    /\ \A e \in ErratumIds :
         (ReadyForRelPrep(e) /\ Unqueued(e) /\ Discoverable(e))
            ~> (HandlerStarts(e) /\ ReadyForRelPrep(e))
    /\ [](\A e \in ErratumIds :
            (HandlerStarts(e) /\ ReadyForRelPrep(e)) => AttemptsRelPrep(e))

\* C37 divergence: the advisory is ready and has no work item, the Collector
\* is idle, and what the Collector would collect does not hold the advisory
C37_NotCollected ==
    /\ ReadyForRelPrep("E1")
    /\ Unqueued("E1")
    /\ cpc = "idle"
    /\ ErratumItem("E1") \notin CollectedWorkItems

\* C37 case: the handler of the advisory has run on an advisory in QE with
\* every linked issue Release Pending, and its attempt moved the advisory on
C37_Witness ==
    /\ last.op = "process_once"
    /\ last.item = <<ErratumItem("E1")>>
    /\ errata["E1"].status = "REL_PREP"
    /\ \A k \in errata["E1"].jira_issues : issues[k].status = "Release Pending"


(***************************************************************************)
(* C38: a reproduction is started at most once per issue.                  *)
(***************************************************************************)
\* the dispatch ran on an issue whose comments hold a reproduction table
TablePosted == Self.issue.baseline # <<>>

TouchesReproduction ==
    \/ CreateCalledWith # {}
    \/ Submissions > 0
    \/ RecordsPairings

\* C38: over the dispatches of one issue with dry-run off, a dispatch that
\* finds a reproduction table in the comments does not call
\* BaselineTests.create, submits nothing and posts no table; its analysis, if
\* it makes one, is made with after_baseline set, and a failed classification
\* ends in the escalation "Tests failed".  The table, once posted, stays, and
\* a dispatch that posts one found none.
C38_ReproductionStartedOnce ==
    /\ []((last.op = "do_process_issue" /\ TablePosted) =>
            /\ ~TouchesReproduction
            /\ \A rd \in ReadsOf(Out, "analyze_issue") :
                 /\ rd[4]
                 /\ rd[2] = "tests-failed" =>
                       EscalatesWith(Out, {"Tests failed - see details below"}))
    /\ [][issues["I1"].baseline # <<>> => issues'["I1"].baseline = issues["I1"].baseline]_vars
    /\ []((last.op = "do_process_issue" /\ RecordsPairings) =>
            /\ ~TablePosted
            /\ issues["I1"].baseline # <<>>)

\* C38 case: a dispatch after the one that posted the table classified the
\* tests as failed, with failing run ids, and escalated
C38_Witness ==
    /\ last.op = "do_process_issue"
    /\ TablePosted
    /\ \E rd \in ReadsOf(Out, "analyze_issue") :
         rd[2] = "tests-failed" /\ rd[3] >= 1 /\ rd[4]
    /\ EscalatesWith(Out, {"Tests failed - see details below"})
    /\ ~TouchesReproduction


(***************************************************************************)
(* C39: at most one open tracking issue per advisory.                      *)
(***************************************************************************)
\* the calls of the run on the tracking issue of its advisory
TrackingCalls(op) ==
    {j \in DOMAIN Out.calls :
        Out.calls[j][1] = op /\ Out.calls[j][2] = TrackKey(Self.erratum.id)}

OpenBefore == Self.track \in {"open_labelled", "open_unlabelled"}

\* C39: a run of the advisory handler never leaves more than one open
\* tracking issue with the advisory's tag, whatever single tracking issue
\* (none, open with or without the label, closed) it found; its escalation
\* adds the needs-attention label to the open tracking issue when there is
\* one and creates none, and creates one tracking issue when there is none
\* or only a closed one.
C39_OneOpenTrackingIssue ==
    /\ \A e \in ErratumIds : tracking[e] # SEVERAL_OPEN
    /\ (last.op = "do_process_erratum" /\ Escalation(Out)) =>
         IF OpenBefore
         THEN /\ Cardinality(TrackingCalls("add_issue_label")) = 1
              /\ \A j \in TrackingCalls("add_issue_label") : Out.calls[j][3] = NEEDS_ATTENTION
              /\ TrackingCalls("create_issue") = {}
         ELSE /\ Cardinality(TrackingCalls("create_issue")) = 1
              /\ TrackingCalls("add_issue_label") = {}
    /\ (last.op = "do_process_erratum" /\ ~Escalation(Out)) =>
         /\ TrackingCalls("create_issue") = {}
         /\ TrackingCalls("add_issue_label") = {}

\* C39 case: dry-run off, the advisory had an open tracking issue without the
\* label, the run escalated, and the tracking issue now carries the label
C39_Witness ==
    /\ last.op = "do_process_erratum"
    /\ ~dry_run
    /\ Self.track = "open_unlabelled"
    /\ Escalation(Out)
    /\ TrackingCalls("add_issue_label") # {}
    /\ tracking[Self.erratum.id] = "open_labelled"


(***************************************************************************)
(* C40: the issue handler moves the status forward only.                   *)
(***************************************************************************)
\* the place of a status on the path New/Planning/In Progress ->
\* Integration -> Release Pending (0 for a status outside the path)
StatusPlace(status) ==
    CASE status \in {"New", "Planning", "In Progress"} -> 1
      [] status = "Integration" -> 2
      [] status = "Release Pending" -> 3
      [] OTHER -> 0

StatusRequests == {j \in DOMAIN Out.calls : Out.calls[j][1] = "change_issue_status"}

\* C40: a run of the issue handler requests at most one status, for its own
\* issue: Integration, and then the issue was New, Planning or In Progress,
\* or Release Pending, and then the issue was at Integration and the
\* analysis of the run said passed or waived; never another status.  After
\* the run the issue has the status it had or the next one on the path.
C40_StatusForwardOnly ==
    (last.op = "do_process_issue") =>
      /\ Cardinality(StatusRequests) <= 1
      /\ \A j \in StatusRequests :
           LET c == Out.calls[j] IN
           /\ c[2] = Self.issue.key
           /\ c[3] \in {"Integration", "Release Pending"}
           /\ c[3] = "Integration" => Self.issue.status \in {"New", "Planning", "In Progress"}
           /\ c[3] = "Release Pending" =>
                /\ Self.issue.status = "Integration"
                /\ \E rd \in ReadsOf(Out, "analyze_issue") :
                     rd[2] \in {"tests-passed", "tests-waived"}
           /\ StatusPlace(c[3]) = StatusPlace(Self.issue.status) + 1
      /\ \/ issues[Self.issue.key].status = Self.issue.status
         \/ /\ StatusPlace(Self.issue.status) \in {1, 2}
            /\ StatusPlace(issues[Self.issue.key].status) = StatusPlace(Self.issue.status) + 1

\* C40 case: with dry-run off the run found the issue at Integration, the
\* analysis said waived, and the issue is Release Pending now
C40_Witness ==
    /\ last.op = "do_process_issue"
    /\ ~dry_run
    /\ Self.issue.status = "Integration"
    /\ \E rd \in ReadsOf(Out, "analyze_issue") : rd[2] = "tests-waived"
    /\ \E j \in StatusRequests : Out.calls[j][3] = "Release Pending"
    /\ issues[Self.issue.key].status = "Release Pending"

=============================================================================
